---- MODULE Spec2Model ----
(***************************************************************************)
(* Scramble generation engine of speed-cube-scrambler-bot                  *)
(* (SpeedCubingThreads/shared/scrambleGenerators.ts).                      *)
(*                                                                         *)
(* One call of generateScramble is a run of the state machine: the         *)
(* dispatcher picks the generator, the generator initialises its locals,   *)
(* each loop iteration is one action whose random draws are \E-bound,      *)
(* and the return joins the scramble array with single spaces.             *)
(*                                                                         *)
(* Strings the code builds or inspects are sequences of one-character      *)
(* strings (Chars); a token is such a sequence.                            *)
(*                                                                         *)
(* The scramble array is only ever appended to and, at the return,         *)
(* joined; no generator reads back an element.  The variable scramble      *)
(* keeps its last Window elements and scrambleLen its length, so every     *)
(* run of Window consecutive tokens of the real array is the value of      *)
(* scramble in some state, at a known absolute position.                   *)
(***************************************************************************)
EXTENDS Integers, Sequences, FiniteSets, TLC

\* Number of trailing elements of the scramble array the model retains.
Window == 3

undefined == "undefined"

----------------------------------------------------------------------------
\* Array and string primitives of the language, as the code uses them.

\* Array.prototype.includes
includes(array, x) == \E k \in 1..Len(array) : array[k] = x

\* The set of the elements of an array.
Range(array) == { array[k] : k \in 1..Len(array) }

\* Array.prototype.push on the retained tail of the scramble array.
push(array, token) ==
    LET a == Append(array, token)
    IN  IF Len(a) > Window THEN SubSeq(a, Len(a) - Window + 1, Len(a)) ELSE a

\* The characters of each string literal the generators use.
Chars(s) ==
    CASE s = ""    -> << >>
      [] s = "'"   -> << "'" >>
      [] s = "2"   -> << "2" >>
      [] s = "w"   -> << "w" >>
      [] s = "w'"  -> << "w", "'" >>
      [] s = "w2"  -> << "w", "2" >>
      [] s = "y2"  -> << "y", "2" >>
      [] s = "UL"  -> << "U", "L" >>
      [] s = "UR"  -> << "U", "R" >>
      [] s = "DR"  -> << "D", "R" >>
      [] s = "DL"  -> << "D", "L" >>
      [] s = "ALL" -> << "A", "L", "L" >>
      [] s = "+"   -> << "+" >>
      [] OTHER     -> << s >>

Digits == << "0", "1", "2", "3", "4", "5", "6", "7", "8", "9" >>

\* Number-to-string conversion of a template literal `${n}`.
RECURSIVE NatToString(_)
NatToString(n) ==
    IF n < 10 THEN << Digits[n + 1] >>
    ELSE NatToString(n \div 10) \o << Digits[(n % 10) + 1] >>

NumberToString(n) == IF n < 0 THEN << "-" >> \o NatToString(0 - n) ELSE NatToString(n)

\* Array.prototype.join(sep) on an array of strings.
RECURSIVE join(_, _)
join(array, sep) ==
    IF Len(array) = 0 THEN << >>
    ELSE IF Len(array) = 1 THEN array[1]
    ELSE array[1] \o sep \o join(Tail(array), sep)

----------------------------------------------------------------------------
\* Random primitives: the set of values a call can return.

\* Mutant: the range is one too wide.
getRandomInt_tooWide(min, max) == min..(max + 1)

\* Math.floor(Math.random() * (max - min + 1)) + min
getRandomInt(min, max) == min..max

\* array[Math.floor(Math.random() * array.length)]
getRandomElement(array) ==
    IF Len(array) = 0 THEN { undefined } ELSE Range(array)

----------------------------------------------------------------------------
\* Static tables.

cubeTypes == [ SKEWB |-> "Skewb", THREE_BLD |-> "3x3 BLD", TWO |-> "2x2",
               THREE |-> "3x3", PYRAMINX |-> "Pyraminx", THREE_OH |-> "3x3 OH",
               CLOCK |-> "Clock" ]

opposites == [ R |-> "L", L |-> "R", U |-> "D", D |-> "U", F |-> "B", B |-> "F" ]

sameAxisTable == [ R |-> << "R", "L" >>, L |-> << "R", "L" >>,
                   U |-> << "U", "D" >>, D |-> << "U", "D" >>,
                   F |-> << "F", "B" >>, B |-> << "F", "B" >> ]

\* sameAxis[m]: undefined for a key the table does not have.
sameAxis(m) == IF m \in DOMAIN sameAxisTable THEN sameAxisTable[m] ELSE undefined

----------------------------------------------------------------------------
VARIABLES
    pc,                \* position in the running call
    callee,            \* generator function selected by the dispatcher
    cubeType,          \* argument of generateScramble
    i,                 \* loop counter of the running generator
    moveCount,         \* 2x2 / Pyraminx: number of moves drawn before the loop
    tipCount,          \* Pyraminx: number of tips drawn
    scramble,          \* last Window elements of the scramble array
    scrambleLen,       \* scramble.length
    lastMove,
    secondLastMove,
    lastCorner,
    secondLastCorner,
    usedTips,          \* Pyraminx: Set of tips already pushed
    pins,              \* Clock: pin record
    branch,            \* which path the last loop iteration took
    result,            \* the returned string (join of the retained tail)
    movesArg,          \* generateCustomScramble: moves as passed (<< >> if omitted)
    difficultyArg,     \* generateCustomScramble: difficulty as passed
    moves,             \* custom generators: parameter moves
    difficulty,        \* custom generators: parameter difficulty
    faces,             \* custom generators: array faces
    modifiers,         \* custom generators: array modifiers
    lastFace,
    lastAxis,
    drawnFace,         \* custom generators: face, as drawn last in the do-while
    suspended,         \* the variables above of a second invocation, not running
    dateDay,           \* generateDailyScramble: date.getDay(), -1 outside a call
    daily,             \* generateDailyScramble: the returned object
    challengeThreads,  \* storage: the stored challenge threads, in order of id
    botConfigs,        \* storage: the stored bot configurations
    post,              \* the invocation of Scheduler.triggerDailyScramblePost
    cleanup,           \* the invocation of Scheduler.triggerThreadCleanup
    cronJobs,          \* Scheduler.cronJobs: the pairs << name, job >> of the Map
    activeJobs,        \* the cron jobs that are scheduled and not stopped
    jobCount           \* number of cron jobs created so far

\* The variables of generateCustomScramble and of the custom generators, and
\* the record of the suspended invocation.
\* The variables of Scheduler and storage.
schedulerVars == << challengeThreads, botConfigs, post, cleanup, cronJobs,
                   activeJobs, jobCount >>

\* The variables of ScrambleManager, Scheduler and storage.
serverVars == << dateDay, daily, challengeThreads, botConfigs, post, cleanup,
                cronJobs, activeJobs, jobCount >>

customVars == << movesArg, difficultyArg, moves, difficulty, faces, modifiers,
                 lastFace, lastAxis, drawnFace, suspended, serverVars >>

vars == << pc, callee, cubeType, i, moveCount, tipCount, scramble, scrambleLen,
           lastMove, secondLastMove, lastCorner, secondLastCorner, usedTips,
           pins, branch, result, customVars >>

\* Locals of a call that has not yet initialised them.
NoLocals ==
    /\ i = 0
    /\ moveCount = 0
    /\ tipCount = 0
    /\ scramble = << >>
    /\ scrambleLen = 0
    /\ lastMove = ""
    /\ secondLastMove = ""
    /\ lastCorner = ""
    /\ secondLastCorner = ""
    /\ usedTips = {}
    /\ pins = << >>
    /\ branch = ""
    /\ moves = 0
    /\ difficulty = ""
    /\ faces = << >>
    /\ modifiers = << >>
    /\ lastFace = ""
    /\ lastAxis = ""
    /\ drawnFace = ""

\* The same, as the effect of entering a new call.
ResetLocals ==
    /\ i' = 0
    /\ moveCount' = 0
    /\ tipCount' = 0
    /\ scramble' = << >>
    /\ scrambleLen' = 0
    /\ lastMove' = ""
    /\ secondLastMove' = ""
    /\ lastCorner' = ""
    /\ secondLastCorner' = ""
    /\ usedTips' = {}
    /\ pins' = << >>
    /\ branch' = ""
    /\ moves' = 0
    /\ difficulty' = ""
    /\ faces' = << >>
    /\ modifiers' = << >>
    /\ lastFace' = ""
    /\ lastAxis' = ""
    /\ drawnFace' = ""

\* An invocation that has not been made.
NoInvocation ==
    [ pc |-> "idle", callee |-> "", cubeType |-> "", i |-> 0, moveCount |-> 0,
      tipCount |-> 0, scramble |-> << >>, scrambleLen |-> 0, lastMove |-> "",
      secondLastMove |-> "", lastCorner |-> "", secondLastCorner |-> "",
      usedTips |-> {}, pins |-> << >>, branch |-> "", result |-> << >>,
      movesArg |-> << >>, difficultyArg |-> undefined, moves |-> 0,
      difficulty |-> "", faces |-> << >>, modifiers |-> << >>, lastFace |-> "",
      lastAxis |-> "", drawnFace |-> "" ]

\* An operation of the scheduler that is not running and has not run.
NoTrigger ==
    [ pc |-> "idle", origin |-> "", allThreads |-> << >>, attempts |-> << >>,
      configs |-> << >>, next |-> 0, success |-> FALSE, count |-> 0 ]

\* No object has been returned by generateDailyScramble.
NoDaily == [ day |-> "", cubeType |-> "", scramble |-> << >> ]

Init ==
    /\ pc = "idle"
    /\ callee = ""
    /\ cubeType = ""
    /\ result = << >>
    /\ movesArg = << >>
    /\ difficultyArg = undefined
    /\ NoLocals
    /\ suspended = NoInvocation
    /\ dateDay = -1
    /\ daily = NoDaily
    /\ challengeThreads = << >>
    /\ botConfigs = << >>
    /\ post = NoTrigger
    /\ cleanup = NoTrigger
    /\ cronJobs = {}
    /\ activeJobs = {}
    /\ jobCount = 0

----------------------------------------------------------------------------
\* generateScramble(cubeType): the dispatch switch.

\* Type strings a caller of Spec passes: the labels with a generator of their
\* own.  The labels that delegate and the strings outside the labels are
\* passed under SpecDelegation and SpecArguments.
CubeTypeInputs == { "3x3", "2x2", "Pyraminx", "Skewb", "Clock" }

\* Mutant: the labels are matched without regard to case.
generateScrambleCallee_caseInsensitive(t) ==
    CASE t = cubeTypes.THREE                -> "generate3x3Scramble"
      [] t = cubeTypes.TWO                  -> "generate2x2Scramble"
      [] t \in { cubeTypes.PYRAMINX, "pyraminx" } -> "generatePyraminxScramble"
      [] t \in { cubeTypes.SKEWB, "skewb" } -> "generateSkewbScramble"
      [] t \in { cubeTypes.CLOCK, "clock" } -> "generateClockScramble"
      [] t \in { cubeTypes.THREE_BLD, "3x3 bld" } -> "generate3x3BLDScramble"
      [] t \in { cubeTypes.THREE_OH, "3x3 oh" } -> "generate3x3OHScramble"
      [] OTHER                              -> "generate3x3Scramble"

generateScrambleCallee(t) ==
    CASE t = cubeTypes.THREE     -> "generate3x3Scramble"
      [] t = cubeTypes.TWO       -> "generate2x2Scramble"
      [] t = cubeTypes.PYRAMINX  -> "generatePyraminxScramble"
      [] t = cubeTypes.SKEWB     -> "generateSkewbScramble"
      [] t = cubeTypes.CLOCK     -> "generateClockScramble"
      [] t = cubeTypes.THREE_BLD -> "generate3x3BLDScramble"
      [] t = cubeTypes.THREE_OH  -> "generate3x3OHScramble"
      [] OTHER                   -> "generate3x3Scramble"

\* A call of generateScramble with a type string of the given set.
generateScrambleOn(inputs) ==
    /\ pc \in { "idle", "done" }
    /\ \E t \in inputs :
          /\ cubeType' = t
          /\ callee' = generateScrambleCallee(t)
    /\ pc' = "entry"
    /\ result' = << >>
    /\ movesArg' = << >>
    /\ difficultyArg' = undefined
    /\ ResetLocals
    /\ UNCHANGED << suspended, serverVars >>

generateScramble == generateScrambleOn(CubeTypeInputs)

----------------------------------------------------------------------------
\* generate3x3BLDScramble and generate3x3OHScramble: each returns the value of
\* a call of the function it names.

\* Mutant: the blindfolded wrapper calls the 2x2 generator.
generate3x3BLDScrambleCallee_2x2 == "generate2x2Scramble"

generate3x3BLDScrambleCallee == "generate3x3Scramble"

generate3x3OHScrambleCallee == "generate3x3Scramble"

generate3x3BLDScramble ==
    /\ pc = "entry"
    /\ callee = "generate3x3BLDScramble"
    /\ callee' = generate3x3BLDScrambleCallee
    /\ UNCHANGED << pc, cubeType, i, moveCount, tipCount, scramble, scrambleLen,
                    lastMove, secondLastMove, lastCorner, secondLastCorner,
                    usedTips, pins, branch, result, customVars >>

generate3x3OHScramble ==
    /\ pc = "entry"
    /\ callee = "generate3x3OHScramble"
    /\ callee' = generate3x3OHScrambleCallee
    /\ UNCHANGED << pc, cubeType, i, moveCount, tipCount, scramble, scrambleLen,
                    lastMove, secondLastMove, lastCorner, secondLastCorner,
                    usedTips, pins, branch, result, customVars >>

----------------------------------------------------------------------------
\* generate3x3Scramble

\* Mutant: a slice letter, which sameAxis has no key for, is among the moves.
moves3x3_withSlice == << "R", "L", "U", "D", "F", "B", "M" >>

moves3x3 == << "R", "L", "U", "D", "F", "B" >>

adjacentPairs == << << "R", "F" >>, << "R", "U" >>, << "U", "F" >>,
                    << "L", "B" >>, << "L", "D" >>, << "D", "B" >> >>

\* First element of the pair that is not m (Array.prototype.find).
findOther(pair, m) ==
    IF \E k \in 1..Len(pair) : pair[k] # m
    THEN pair[CHOOSE k \in 1..Len(pair) :
                 /\ pair[k] # m
                 /\ \A j \in 1..(k - 1) : pair[j] = m]
    ELSE undefined

\* Mutant: only the last face itself is filtered, not its axis.
availableMoves3x3_sameFaceOnly(last, secondLast) ==
    LET NotLast(m) == m # last
        a1 == IF last # "" THEN SelectSeq(moves3x3, NotLast) ELSE moves3x3
        NotSecond(m) == m # secondLast
    IN  IF secondLast # "" /\ last # "" /\ includes(a1, secondLast)
        THEN SelectSeq(a1, NotSecond) ELSE a1

\* Mutant: the second-last face is not filtered out.
availableMoves3x3_noSecondLast(last, secondLast) ==
    LET NotSameAxis(m) == ~ includes(sameAxis(last), m)
    IN  IF last # "" THEN SelectSeq(moves3x3, NotSameAxis) ELSE moves3x3

\* availableMoves of one 3x3 iteration, after the three filtering steps.
availableMoves3x3(last, secondLast) ==
    LET NotSameAxis(m) == ~ includes(sameAxis(last), m)
        a1 == IF last # "" THEN SelectSeq(moves3x3, NotSameAxis) ELSE moves3x3
        NotSecond(m) == m # secondLast
        a2 == IF secondLast # "" /\ last # "" /\ includes(a1, secondLast)
              THEN SelectSeq(a1, NotSecond) ELSE a1
        NotLast(m) == m # last
    IN  IF Len(a2) = 0 THEN SelectSeq(moves3x3, NotLast) ELSE a2

\* Math.random() < 0.4 ? '2' : (Math.random() < 0.5 ? '\'' : '')
biasModifier(r1, r2) == IF r1 THEN "2" ELSE IF r2 THEN "'" ELSE ""

\* The three-way modifier choice on r = Math.random(): below the first
\* threshold, below the second, or neither.
regularModifier(r) == CASE r = 1 -> "" [] r = 2 -> "'" [] OTHER -> "2"

\* Mutant: the loop runs one iteration too many.
continue3x3_offByOne(k) == k <= 20

\* Loop condition of the move loop.
continue3x3(k) == k < 20

generate3x3Scramble_begin ==
    /\ pc = "entry"
    /\ callee = "generate3x3Scramble"
    /\ pc' = "loop"
    /\ i' = 0
    /\ scramble' = << >>
    /\ scrambleLen' = 0
    /\ lastMove' = ""
    /\ secondLastMove' = ""
    /\ UNCHANGED << callee, cubeType, moveCount, tipCount, lastCorner,
                    secondLastCorner, usedTips, pins, branch, result, customVars >>

\* sameAxis[lastMove].includes(move) is a TypeError when lastMove is set and
\* sameAxis has no such key.
throws3x3(last) == last # "" /\ last # undefined /\ sameAxis(last) = undefined

generate3x3Scramble_loop ==
    /\ pc = "loop"
    /\ callee = "generate3x3Scramble"
    /\ continue3x3(i)
    /\ IF throws3x3(lastMove)
       THEN /\ pc' = "threw"
            /\ UNCHANGED << i, scramble, scrambleLen, lastMove, secondLastMove, branch >>
       ELSE
            /\ LET availableMoves == availableMoves3x3(lastMove, secondLastMove)
                   HasLast(pair) == includes(pair, lastMove)
                   preferredPairs == SelectSeq(adjacentPairs, HasLast)
                   Regular ==
                       \E face \in getRandomElement(availableMoves), r \in 1..3 :
                           /\ scramble' = push(scramble, Chars(face) \o Chars(regularModifier(r)))
                           /\ secondLastMove' = lastMove
                           /\ lastMove' = face
                           /\ branch' = "regular"
               IN  IF i > 0 /\ i % 5 = 0 /\ lastMove # "" /\ Len(preferredPairs) > 0
                   THEN \E randomPair \in getRandomElement(preferredPairs) :
                          LET preferredMove == findOther(randomPair, lastMove)
                          IN  IF preferredMove # undefined /\ includes(availableMoves, preferredMove)
                              THEN \E coin \in BOOLEAN :
                                     IF coin
                                     THEN \E r1 \in BOOLEAN, r2 \in BOOLEAN :
                                            /\ scramble' = push(scramble,
                                                   Chars(preferredMove) \o Chars(biasModifier(r1, r2)))
                                            /\ secondLastMove' = lastMove
                                            /\ lastMove' = preferredMove
                                            /\ branch' = "preferred"
                                     ELSE Regular
                              ELSE Regular
                   ELSE Regular
            /\ scrambleLen' = scrambleLen + 1
            /\ i' = i + 1
            /\ pc' = pc
    /\ UNCHANGED << callee, cubeType, moveCount, tipCount, lastCorner,
                    secondLastCorner, usedTips, pins, result, customVars >>

generate3x3Scramble_return ==
    /\ pc = "loop"
    /\ callee = "generate3x3Scramble"
    /\ ~ continue3x3(i)
    /\ result' = join(scramble, << " " >>)
    /\ pc' = "done"
    /\ UNCHANGED << callee, cubeType, i, moveCount, tipCount, scramble, scrambleLen,
                    lastMove, secondLastMove, lastCorner, secondLastCorner,
                    usedTips, pins, branch, customVars >>

----------------------------------------------------------------------------
\* generate2x2Scramble

moves2x2 == << "R", "U", "F" >>

hardPatterns2x2 == << << "R", "U" >>, << "R", "F" >>, << "U", "F" >> >>

\* Mutant: the moves of the last move's axis are not filtered out.
availableMoves2x2_noAxisFilter(last, secondLast) ==
    LET NotSecond(m) == m # secondLast
    IN  IF secondLast # "" /\ last # "" /\ includes(moves2x2, secondLast)
        THEN SelectSeq(moves2x2, NotSecond) ELSE moves2x2

\* Mutant: the move before the last is not filtered out.
availableMoves2x2_noSecondLast(last, secondLast) ==
    LET NotSameAxis(m) == sameAxis(last) = undefined \/ ~ includes(sameAxis(last), m)
    IN  IF last # "" THEN SelectSeq(moves2x2, NotSameAxis) ELSE moves2x2

\* availableMoves of one 2x2 iteration, after the three filtering steps.
availableMoves2x2(last, secondLast) ==
    LET NotSameAxis(m) == sameAxis(last) = undefined \/ ~ includes(sameAxis(last), m)
        a1 == IF last # "" THEN SelectSeq(moves2x2, NotSameAxis) ELSE moves2x2
        NotSecond(m) == m # secondLast
        a2 == IF secondLast # "" /\ last # "" /\ includes(a1, secondLast)
              THEN SelectSeq(a1, NotSecond) ELSE a1
        NotLast(m) == m # last
    IN  IF Len(a2) = 0 THEN SelectSeq(moves2x2, NotLast) ELSE a2

generate2x2Scramble_begin ==
    /\ pc = "entry"
    /\ callee = "generate2x2Scramble"
    /\ pc' = "loop"
    /\ i' = 0
    /\ scramble' = << >>
    /\ scrambleLen' = 0
    /\ lastMove' = ""
    /\ secondLastMove' = ""
    /\ moveCount' \in getRandomInt(9, 11)
    /\ UNCHANGED << callee, cubeType, tipCount, lastCorner, secondLastCorner,
                    usedTips, pins, branch, result, customVars >>

generate2x2Scramble_loop ==
    /\ pc = "loop"
    /\ callee = "generate2x2Scramble"
    /\ i < moveCount
    /\ LET availableMoves == availableMoves2x2(lastMove, secondLastMove)
           HasLast(pattern) == includes(pattern, lastMove)
           relevantPatterns == SelectSeq(hardPatterns2x2, HasLast)
           Regular ==
               \E face \in getRandomElement(availableMoves), r \in 1..3 :
                   /\ scramble' = push(scramble, Chars(face) \o Chars(regularModifier(r)))
                   /\ secondLastMove' = lastMove
                   /\ lastMove' = face
                   /\ branch' = "regular"
       IN  IF i > 0 /\ i % 3 = 0 /\ lastMove # "" /\ Len(relevantPatterns) > 0
           THEN \E randomPattern \in getRandomElement(relevantPatterns) :
                  LET nextMove == findOther(randomPattern, lastMove)
                  IN  IF nextMove # undefined /\ includes(availableMoves, nextMove)
                      THEN \E coin \in BOOLEAN :
                             IF coin
                             THEN \E r1 \in BOOLEAN, r2 \in BOOLEAN :
                                    /\ scramble' = push(scramble,
                                           Chars(nextMove) \o Chars(biasModifier(r1, r2)))
                                    /\ secondLastMove' = lastMove
                                    /\ lastMove' = nextMove
                                    /\ branch' = "preferred"
                             ELSE Regular
                      ELSE Regular
           ELSE Regular
    /\ scrambleLen' = scrambleLen + 1
    /\ i' = i + 1
    /\ UNCHANGED << pc, callee, cubeType, moveCount, tipCount, lastCorner,
                    secondLastCorner, usedTips, pins, result, customVars >>

generate2x2Scramble_return ==
    /\ pc = "loop"
    /\ callee = "generate2x2Scramble"
    /\ ~ (i < moveCount)
    /\ result' = join(scramble, << " " >>)
    /\ pc' = "done"
    /\ UNCHANGED << callee, cubeType, i, moveCount, tipCount, scramble, scrambleLen,
                    lastMove, secondLastMove, lastCorner, secondLastCorner,
                    usedTips, pins, branch, customVars >>

----------------------------------------------------------------------------
\* generatePyraminxScramble

regularMoves == << "R", "L", "U", "B" >>

tipMoves == << "r", "l", "u", "b" >>

modifiersPyraminx == << "", "'" >>

antiRotation == [ R |-> "L", L |-> "R", U |-> "B", B |-> "U" ]

hardPatternsPyraminx == << << "R", "L" >>, << "U", "B" >>, << "R", "U" >>, << "L", "B" >> >>

\* Mutant: the last move is not filtered out.
availableMovesPyraminx_lastAllowed(last, secondLast) ==
    LET NotSecond(m) == m # secondLast
    IN  IF secondLast # "" /\ last # "" /\ secondLast = antiRotation[last]
        THEN SelectSeq(regularMoves, NotSecond) ELSE regularMoves

\* availableMoves of one single-move Pyraminx iteration.
availableMovesPyraminx(last, secondLast) ==
    LET NotLast(m) == m # last
        a1 == SelectSeq(regularMoves, NotLast)
        NotSecond(m) == m # secondLast
        a2 == IF secondLast # "" /\ last # "" /\ secondLast = antiRotation[last]
              THEN SelectSeq(a1, NotSecond) ELSE a1
    IN  IF Len(a2) = 0 THEN SelectSeq(regularMoves, NotLast) ELSE a2

\* Mutant: the pattern is injected when only one move is left.
patternFits_oneLeft(k, count) == k % 3 = 0 /\ k < count

\* Guard of the hard-pattern injection: every third iteration, if two moves fit.
patternFits(k, count) == k % 3 = 0 /\ k + 1 < count

\* Mutant: used tips are not filtered out.
availableTips_unfiltered(used) == tipMoves

\* tipMoves.filter(tip => !usedTips.has(tip))
availableTips(used) ==
    LET Unused(tip) == tip \notin used
    IN  SelectSeq(tipMoves, Unused)

generatePyraminxScramble_begin ==
    /\ pc = "entry"
    /\ callee = "generatePyraminxScramble"
    /\ pc' = "loop"
    /\ i' = 0
    /\ scramble' = << >>
    /\ scrambleLen' = 0
    /\ lastMove' = ""
    /\ secondLastMove' = ""
    /\ moveCount' \in getRandomInt(8, 10)
    /\ UNCHANGED << callee, cubeType, tipCount, lastCorner, secondLastCorner,
                    usedTips, pins, branch, result, customVars >>

generatePyraminxScramble_loop ==
    /\ pc = "loop"
    /\ callee = "generatePyraminxScramble"
    /\ i < moveCount
    /\ LET Single ==
               \E move \in getRandomElement(availableMovesPyraminx(lastMove, secondLastMove)),
                  inverse \in BOOLEAN :
                   /\ scramble' = push(scramble,
                                       Chars(move) \o Chars(IF inverse THEN "'" ELSE ""))
                   /\ scrambleLen' = scrambleLen + 1
                   /\ secondLastMove' = lastMove
                   /\ lastMove' = move
                   /\ i' = i + 1
                   /\ branch' = "single"
       IN  IF patternFits(i, moveCount)
           THEN \E pattern \in getRandomElement(hardPatternsPyraminx) :
                  IF pattern[1] # lastMove
                  THEN \E mod1 \in getRandomElement(modifiersPyraminx),
                          mod2 \in getRandomElement(modifiersPyraminx) :
                         /\ scramble' = push(push(scramble, Chars(pattern[1]) \o Chars(mod1)),
                                             Chars(pattern[2]) \o Chars(mod2))
                         /\ scrambleLen' = scrambleLen + Len(pattern)
                         /\ secondLastMove' = pattern[Len(pattern) - 1]
                         /\ lastMove' = pattern[Len(pattern)]
                         /\ i' = (i + (Len(pattern) - 1)) + 1
                         /\ branch' = "pattern"
                  ELSE Single
           ELSE Single
    /\ UNCHANGED << pc, callee, cubeType, moveCount, tipCount, lastCorner,
                    secondLastCorner, usedTips, pins, result, customVars >>

\* The base loop has ended: usedTips and tipCount are set up for the tip loop.
generatePyraminxScramble_tipsBegin ==
    /\ pc = "loop"
    /\ callee = "generatePyraminxScramble"
    /\ ~ (i < moveCount)
    /\ usedTips' = {}
    /\ tipCount' \in getRandomInt(0, 2)
    /\ i' = 0
    /\ pc' = "tips"
    /\ UNCHANGED << callee, cubeType, moveCount, scramble, scrambleLen, lastMove,
                    secondLastMove, lastCorner, secondLastCorner, pins, branch, result, customVars >>

generatePyraminxScramble_tip ==
    /\ pc = "tips"
    /\ callee = "generatePyraminxScramble"
    /\ i < tipCount
    /\ Len(availableTips(usedTips)) # 0
    /\ \E tip \in getRandomElement(availableTips(usedTips)),
          modifier \in getRandomElement(modifiersPyraminx) :
          /\ scramble' = push(scramble, Chars(tip) \o Chars(modifier))
          /\ usedTips' = usedTips \cup { tip }
    /\ scrambleLen' = scrambleLen + 1
    /\ i' = i + 1
    /\ branch' = "tip"
    /\ UNCHANGED << pc, callee, cubeType, moveCount, tipCount, lastMove, secondLastMove,
                    lastCorner, secondLastCorner, pins, result, customVars >>

\* The tip loop ends when i reaches tipCount or no tip is left (break).
generatePyraminxScramble_return ==
    /\ pc = "tips"
    /\ callee = "generatePyraminxScramble"
    /\ ~ (i < tipCount) \/ Len(availableTips(usedTips)) = 0
    /\ result' = join(scramble, << " " >>)
    /\ pc' = "done"
    /\ UNCHANGED << callee, cubeType, i, moveCount, tipCount, scramble, scrambleLen,
                    lastMove, secondLastMove, lastCorner, secondLastCorner,
                    usedTips, pins, branch, customVars >>

----------------------------------------------------------------------------
\* generateSkewbScramble

corners == << "R", "U", "L", "B" >>

\* Mutant: the list of R names R itself in place of U.
adjacentCornersTable_selfAdjacent ==
    [ R |-> << "R", "L", "B" >>, U |-> << "R", "L", "B" >>,
      L |-> << "R", "U", "B" >>, B |-> << "R", "U", "L" >> ]

adjacentCornersTable == [ R |-> << "U", "L", "B" >>, U |-> << "R", "L", "B" >>,
                          L |-> << "R", "U", "B" >>, B |-> << "R", "U", "L" >> ]

\* adjacentCorners[c]: undefined for a key the table does not have.
adjacentCorners(c) ==
    IF c \in DOMAIN adjacentCornersTable THEN adjacentCornersTable[c] ELSE undefined

\* Mutant: the loop runs one iteration too few.
continueSkewb_oneShort(k) == k < 8

\* Loop condition of the move loop.
continueSkewb(k) == k < 9

\* Mutant: the last corner is kept and every other corner dropped.
availableCornersSkewb_onlyLast(last) ==
    LET IsLast(corner) == corner = last
    IN  SelectSeq(corners, IsLast)

\* corners.filter(corner => corner !== lastCorner)
availableCornersSkewb(last) ==
    LET NotLast(corner) == corner # last
    IN  SelectSeq(corners, NotLast)

\* adjacentCorners[lastCorner].filter(corner => corner !== secondLastCorner)
adjacentOptionsSkewb(last, secondLast) ==
    LET NotSecond(corner) == corner # secondLast
    IN  SelectSeq(adjacentCorners(last), NotSecond)

generateSkewbScramble_begin ==
    /\ pc = "entry"
    /\ callee = "generateSkewbScramble"
    /\ pc' = "loop"
    /\ i' = 0
    /\ scramble' = << >>
    /\ scrambleLen' = 0
    /\ lastCorner' = ""
    /\ secondLastCorner' = ""
    /\ UNCHANGED << callee, cubeType, moveCount, tipCount, lastMove, secondLastMove,
                    usedTips, pins, branch, result, customVars >>

generateSkewbScramble_loop ==
    /\ pc = "loop"
    /\ callee = "generateSkewbScramble"
    /\ continueSkewb(i)
    /\ LET availableCorners == availableCornersSkewb(lastCorner)
           Regular ==
               \E corner \in getRandomElement(availableCorners), inverse \in BOOLEAN :
                   /\ scramble' = push(scramble,
                                       Chars(corner) \o Chars(IF inverse THEN "'" ELSE ""))
                   /\ secondLastCorner' = lastCorner
                   /\ lastCorner' = corner
                   /\ branch' = "regular"
       IN  IF lastCorner # "" /\ adjacentCorners(lastCorner) # undefined
           THEN \E coin \in BOOLEAN :
                  LET adjacentOptions == adjacentOptionsSkewb(lastCorner, secondLastCorner)
                  IN  IF coin /\ Len(adjacentOptions) > 0
                      THEN \E corner \in getRandomElement(adjacentOptions),
                              inverse \in BOOLEAN :
                             /\ scramble' = push(scramble,
                                    Chars(corner) \o Chars(IF inverse THEN "'" ELSE ""))
                             /\ secondLastCorner' = lastCorner
                             /\ lastCorner' = corner
                             /\ branch' = "adjacent"
                      ELSE Regular
           ELSE Regular
    /\ scrambleLen' = scrambleLen + 1
    /\ i' = i + 1
    /\ UNCHANGED << pc, callee, cubeType, moveCount, tipCount, lastMove, secondLastMove,
                    usedTips, pins, result, customVars >>

generateSkewbScramble_return ==
    /\ pc = "loop"
    /\ callee = "generateSkewbScramble"
    /\ ~ continueSkewb(i)
    /\ result' = join(scramble, << " " >>)
    /\ pc' = "done"
    /\ UNCHANGED << callee, cubeType, i, moveCount, tipCount, scramble, scrambleLen,
                    lastMove, secondLastMove, lastCorner, secondLastCorner,
                    usedTips, pins, branch, customVars >>

----------------------------------------------------------------------------
\* generateClockScramble

\* Key order of the pins record (Object.values order) and of the flip list.
pinPositions == << "UR", "DR", "DL", "UL" >>

\* Mutant: the ALL position is missing from the hour loops.
positions_withoutAll == << "UL", "UR", "DR", "DL" >>

\* The positions of each of the two hour loops.
positions == << "UL", "UR", "DR", "DL", "ALL" >>

pinValues == << "u", "d" >>

\* Object.values(pins).filter(p => p === 'd').length
downPinCount(p) == Cardinality({ k \in 1..Len(pinPositions) : p[pinPositions[k]] = "d" })

\* `(${pins.UR},${pins.DR},${pins.DL},${pins.UL})`
pinToken(p) ==
    << "(" >> \o Chars(p["UR"]) \o << "," >> \o Chars(p["DR"]) \o << "," >>
              \o Chars(p["DL"]) \o << "," >> \o Chars(p["UL"]) \o << ")" >>

\* Mutant: the sign is shown for positive hours only.
hourToken_noSignForZero(pos, hour) ==
    Chars(pos) \o Chars(IF hour > 0 THEN "+" ELSE "") \o NumberToString(hour)

\* `${pos}${hour >= 0 ? '+' : ''}${hour}`
hourToken(pos, hour) ==
    Chars(pos) \o Chars(IF hour >= 0 THEN "+" ELSE "") \o NumberToString(hour)

\* positions.filter(pos => pins[pos] === 'u')
upPositions(p) ==
    LET IsUp(pos) == p[pos] = "u"
    IN  SelectSeq(pinPositions, IsUp)

\* Mutant: the flip puts every pin down.
flipPins_allDown(drawn, randomPosition) == [ pos \in DOMAIN drawn |-> "d" ]

\* pins[randomPosition] = 'd'
flipPins(drawn, randomPosition) == [ drawn EXCEPT ![randomPosition] = "d" ]

\* The pins after the force-flip step, for each draw of randomPosition.
forcedFlip(drawn) ==
    IF downPinCount(drawn) < 2
    THEN { flipPins(drawn, randomPosition) :
               randomPosition \in getRandomElement(upPositions(drawn)) }
    ELSE { drawn }

\* The four pin draws, the forced flip and the push of the pin token.
generateClockScramble_begin ==
    /\ pc = "entry"
    /\ callee = "generateClockScramble"
    /\ \E ur \in getRandomElement(pinValues), dr \in getRandomElement(pinValues),
          dl \in getRandomElement(pinValues), ul \in getRandomElement(pinValues) :
          LET drawn == [ UR |-> ur, DR |-> dr, DL |-> dl, UL |-> ul ]
          IN  /\ pins' \in forcedFlip(drawn)
              /\ scramble' = push(<< >>, pinToken(pins'))
    /\ scrambleLen' = 1
    /\ i' = 0
    /\ pc' = "first"
    /\ UNCHANGED << callee, cubeType, moveCount, tipCount, lastMove, secondLastMove,
                    lastCorner, secondLastCorner, usedTips, branch, result, customVars >>

\* One iteration of the first loop over positions.
generateClockScramble_first ==
    /\ pc = "first"
    /\ callee = "generateClockScramble"
    /\ i < Len(positions)
    /\ \E hour \in getRandomInt(0, 6) :
          scramble' = push(scramble, hourToken(positions[i + 1], hour))
    /\ scrambleLen' = scrambleLen + 1
    /\ i' = i + 1
    /\ UNCHANGED << pc, callee, cubeType, moveCount, tipCount, lastMove, secondLastMove,
                    lastCorner, secondLastCorner, usedTips, pins, branch, result, customVars >>

\* The first loop has ended: push of the y2 turn.
generateClockScramble_y2 ==
    /\ pc = "first"
    /\ callee = "generateClockScramble"
    /\ ~ (i < Len(positions))
    /\ scramble' = push(scramble, Chars("y2"))
    /\ scrambleLen' = scrambleLen + 1
    /\ i' = 0
    /\ pc' = "second"
    /\ UNCHANGED << callee, cubeType, moveCount, tipCount, lastMove, secondLastMove,
                    lastCorner, secondLastCorner, usedTips, pins, branch, result, customVars >>

\* One iteration of the second loop over positions.
generateClockScramble_second ==
    /\ pc = "second"
    /\ callee = "generateClockScramble"
    /\ i < Len(positions)
    /\ \E hour \in getRandomInt(0, 6) :
          scramble' = push(scramble, hourToken(positions[i + 1], hour))
    /\ scrambleLen' = scrambleLen + 1
    /\ i' = i + 1
    /\ UNCHANGED << pc, callee, cubeType, moveCount, tipCount, lastMove, secondLastMove,
                    lastCorner, secondLastCorner, usedTips, pins, branch, result, customVars >>

generateClockScramble_return ==
    /\ pc = "second"
    /\ callee = "generateClockScramble"
    /\ ~ (i < Len(positions))
    /\ result' = join(scramble, << " " >>)
    /\ pc' = "done"
    /\ UNCHANGED << callee, cubeType, i, moveCount, tipCount, scramble, scrambleLen,
                    lastMove, secondLastMove, lastCorner, secondLastCorner,
                    usedTips, pins, branch, customVars >>

----------------------------------------------------------------------------
Next ==
    \/ generateScramble
    \/ generate3x3Scramble_begin
    \/ generate3x3Scramble_loop
    \/ generate3x3Scramble_return
    \/ generate2x2Scramble_begin
    \/ generate2x2Scramble_loop
    \/ generate2x2Scramble_return
    \/ generatePyraminxScramble_begin
    \/ generatePyraminxScramble_loop
    \/ generatePyraminxScramble_tipsBegin
    \/ generatePyraminxScramble_tip
    \/ generatePyraminxScramble_return
    \/ generateSkewbScramble_begin
    \/ generateSkewbScramble_loop
    \/ generateSkewbScramble_return
    \/ generateClockScramble_begin
    \/ generateClockScramble_first
    \/ generateClockScramble_y2
    \/ generateClockScramble_second
    \/ generateClockScramble_return

Spec == Init /\ [][Next]_vars

----------------------------------------------------------------------------
\* Custom generators.  Of their scramble array the model retains the last
\* CustomWindow elements.

CustomWindow == 1

\* Array.prototype.push on the retained tail of a custom scramble array.
pushCustom(array, token) ==
    LET a == Append(array, token)
    IN  IF Len(a) > CustomWindow
        THEN SubSeq(a, Len(a) - CustomWindow + 1, Len(a)) ELSE a

\* opposites[m]: undefined for a key the table does not have.
oppositeOf(m) == IF m \in DOMAIN opposites THEN opposites[m] ELSE undefined

\* Mutant: only an omitted count takes the fallback (moves ?? fallback).
movesOr_nullish(arg, fallback) == IF arg = << >> THEN fallback ELSE arg[1]

\* moves || fallback, for moves either omitted (<< >>) or a number.
movesOr(arg, fallback) == IF arg = << >> \/ arg[1] = 0 THEN fallback ELSE arg[1]

\* Default parameter value: difficulty = 'medium' when omitted.
difficultyOrMedium(arg) == IF arg = undefined THEN "medium" ELSE arg

----------------------------------------------------------------------------
\* generateCustom3x3Scramble

\* Mutant: case 'easy' has no break and runs into case 'hard'.
modifiers3x3_easyFallsThrough(d) ==
    CASE d = "easy" -> << "", "'", "2", "w", "w'", "w2" >>
      [] d = "hard" -> << "", "'", "2", "w", "w'", "w2" >>
      [] OTHER      -> << "", "'", "2" >>

\* Mutant: the default case of the switch sets the hard modifiers.
modifiers3x3_defaultIsHard(d) ==
    CASE d = "easy"   -> << "", "'" >>
      [] d = "medium" -> << "", "'", "2" >>
      [] OTHER        -> << "", "'", "2", "w", "w'", "w2" >>

\* modifiers, as the switch on difficulty sets it.
modifiers3x3(d) ==
    CASE d = "easy" -> << "", "'" >>
      [] d = "hard" -> << "", "'", "2", "w", "w'", "w2" >>
      [] OTHER      -> << "", "'", "2" >>

\* Mutant: faces is one array of the module, which every invocation reads and
\* which keeps the slice letters once an invocation has pushed them.
faces3x3_moduleLevel(d) ==
    IF d = "hard" \/ includes(suspended.faces, "M")
    THEN << "R", "L", "U", "D", "F", "B" >> \o << "M", "E", "S" >>
    ELSE << "R", "L", "U", "D", "F", "B" >>

\* faces, after the switch on difficulty.
faces3x3(d) ==
    IF d = "hard"
    THEN << "R", "L", "U", "D", "F", "B" >> \o << "M", "E", "S" >>
    ELSE << "R", "L", "U", "D", "F", "B" >>

\* Mutant: only a repeat of the last face is rejected.
rejected3x3_sameFaceOnly(f, lastF, lastA) == f = lastF

\* Mutant: the test of sameAxis[face] is missing from the && chain.
includesReached_unguarded(f, lastA) == lastA # ""

\* lastAxis && sameAxis[face]: the && chain reaches the call of includes.
includesReached(f, lastA) == lastA # "" /\ sameAxis(f) # undefined

\* The condition of the do-while is a TypeError: the two comparisons are false
\* and includes is called on undefined.
throwsCustom3x3(f, lastF, lastA) ==
    /\ f # lastF
    /\ oppositeOf(lastF) # f
    /\ includesReached(f, lastA)
    /\ sameAxis(f) = undefined

\* The condition of the do-while: the drawn face is rejected.
rejected3x3(f, lastF, lastA) ==
    \/ f = lastF
    \/ oppositeOf(lastF) = f
    \/ (includesReached(f, lastA) /\ includes(sameAxis(f), lastA))

\* Mutant: a slice move clears the tracked axis.
nextLastAxis_clearedBySlice(f, lastA) ==
    IF includes(<< "R", "L", "U", "D", "F", "B" >>, f) THEN f ELSE ""

\* if (['R', 'L', 'U', 'D', 'F', 'B'].includes(face)) lastAxis = face
nextLastAxis(f, lastA) ==
    IF includes(<< "R", "L", "U", "D", "F", "B" >>, f) THEN f ELSE lastA

\* Mutant: the loop runs one iteration too many.
continueCustom3x3_offByOne(k, n) == k <= n

\* Loop condition of the move loop.
continueCustom3x3(k, n) == k < n

generateCustom3x3Scramble_begin ==
    /\ pc = "entry"
    /\ callee = "generateCustom3x3Scramble"
    /\ faces' = faces3x3(difficulty)
    /\ modifiers' = modifiers3x3(difficulty)
    /\ scramble' = << >>
    /\ scrambleLen' = 0
    /\ lastFace' = ""
    /\ lastAxis' = ""
    /\ i' = 0
    /\ pc' = "loop"
    /\ UNCHANGED << callee, cubeType, moveCount, tipCount, lastMove, secondLastMove,
                    lastCorner, secondLastCorner, usedTips, pins, branch, result,
                    movesArg, difficultyArg, moves, difficulty, drawnFace, suspended,
                    serverVars >>

\* One pass of the do-while body: a face is drawn; a rejected face leaves the
\* loop where it is, an accepted one is pushed with a modifier.
generateCustom3x3Scramble_loop ==
    /\ pc = "loop"
    /\ callee = "generateCustom3x3Scramble"
    /\ continueCustom3x3(i, moves)
    /\ \E f \in getRandomElement(faces) :
          /\ drawnFace' = f
          /\ IF throwsCustom3x3(f, lastFace, lastAxis)
             THEN /\ pc' = "threw"
                  /\ UNCHANGED << i, scramble, scrambleLen, lastFace, lastAxis, branch >>
             ELSE IF rejected3x3(f, lastFace, lastAxis)
             THEN /\ branch' = "rejected"
                  /\ UNCHANGED << pc, i, scramble, scrambleLen, lastFace, lastAxis >>
             ELSE /\ lastFace' = f
                  /\ lastAxis' = nextLastAxis(f, lastAxis)
                  /\ \E modifier \in getRandomElement(modifiers) :
                        scramble' = pushCustom(scramble, Chars(f) \o Chars(modifier))
                  /\ scrambleLen' = scrambleLen + 1
                  /\ i' = i + 1
                  /\ branch' = "accepted"
                  /\ pc' = pc
    /\ UNCHANGED << callee, cubeType, moveCount, tipCount, lastMove, secondLastMove,
                    lastCorner, secondLastCorner, usedTips, pins, result,
                    movesArg, difficultyArg, moves, difficulty, faces, modifiers, suspended,
                    serverVars >>

generateCustom3x3Scramble_return ==
    /\ pc = "loop"
    /\ callee = "generateCustom3x3Scramble"
    /\ ~ continueCustom3x3(i, moves)
    /\ result' = join(scramble, << " " >>)
    /\ pc' = "done"
    /\ UNCHANGED << callee, cubeType, i, moveCount, tipCount, scramble, scrambleLen,
                    lastMove, secondLastMove, lastCorner, secondLastCorner,
                    usedTips, pins, branch, customVars >>

----------------------------------------------------------------------------
\* generateCustom2x2Scramble

Min(a, b) == IF a < b THEN a ELSE b

Max(a, b) == IF a > b THEN a ELSE b

\* Mutant: the medium clamp has its two bounds swapped.
adjustMoves2x2_mediumSwapped(m, d) ==
    CASE d = "easy" -> Min(m, 8)
      [] d = "hard" -> Max(m, 11)
      [] OTHER      -> Min(Max(m, 11), 9)

\* Mutant: easy raises the count to 8 in place of capping it.
adjustMoves2x2_easyRaises(m, d) ==
    CASE d = "easy" -> Max(m, 8)
      [] d = "hard" -> Max(m, 11)
      [] OTHER      -> Min(Max(m, 9), 11)

\* moves, as adjusted to the difficulty.
adjustMoves2x2(m, d) ==
    CASE d = "easy" -> Min(m, 8)
      [] d = "hard" -> Max(m, 11)
      [] OTHER      -> Min(Max(m, 9), 11)

\* Mutant: every difficulty gets the three modifiers.
modifiers2x2_alwaysThree(d) == << "", "'", "2" >>

\* modifiers, as set for the difficulty.
modifiers2x2(d) ==
    CASE d = "easy" -> << "", "'" >>
      [] d = "hard" -> << "", "'", "2" >>
      [] OTHER      -> << "", "'", "2" >>

generateCustom2x2Scramble_begin ==
    /\ pc = "entry"
    /\ callee = "generateCustom2x2Scramble"
    /\ faces' = << "R", "U", "F" >>
    /\ moves' = adjustMoves2x2(moves, difficulty)
    /\ modifiers' = modifiers2x2(difficulty)
    /\ scramble' = << >>
    /\ scrambleLen' = 0
    /\ lastFace' = ""
    /\ i' = 0
    /\ pc' = "loop"
    /\ UNCHANGED << callee, cubeType, moveCount, tipCount, lastMove, secondLastMove,
                    lastCorner, secondLastCorner, usedTips, pins, branch, result,
                    movesArg, difficultyArg, difficulty, lastAxis, drawnFace, suspended,
                    serverVars >>

\* Mutant: every drawn face is rejected.
rejected2x2_always(f, lastF) == TRUE

\* Mutant: no drawn face is rejected.
rejected2x2_never(f, lastF) == FALSE

\* The condition of the do-while: the drawn face is rejected.
rejected2x2(f, lastF) == f = lastF

\* One pass of the do-while body.
generateCustom2x2Scramble_loop ==
    /\ pc = "loop"
    /\ callee = "generateCustom2x2Scramble"
    /\ i < moves
    /\ \E f \in getRandomElement(faces) :
          /\ drawnFace' = f
          /\ IF rejected2x2(f, lastFace)
             THEN /\ branch' = "rejected"
                  /\ UNCHANGED << i, scramble, scrambleLen, lastFace >>
             ELSE /\ lastFace' = f
                  /\ \E modifier \in getRandomElement(modifiers) :
                        scramble' = pushCustom(scramble, Chars(f) \o Chars(modifier))
                  /\ scrambleLen' = scrambleLen + 1
                  /\ i' = i + 1
                  /\ branch' = "accepted"
    /\ UNCHANGED << pc, callee, cubeType, moveCount, tipCount, lastMove, secondLastMove,
                    lastCorner, secondLastCorner, usedTips, pins, result,
                    movesArg, difficultyArg, moves, difficulty, faces, modifiers,
                    lastAxis, suspended,
                    serverVars >>

generateCustom2x2Scramble_return ==
    /\ pc = "loop"
    /\ callee = "generateCustom2x2Scramble"
    /\ ~ (i < moves)
    /\ result' = join(scramble, << " " >>)
    /\ pc' = "done"
    /\ UNCHANGED << callee, cubeType, i, moveCount, tipCount, scramble, scrambleLen,
                    lastMove, secondLastMove, lastCorner, secondLastCorner,
                    usedTips, pins, branch, customVars >>

----------------------------------------------------------------------------
\* generateCustomScramble(cubeType, moves, difficulty): the dispatch switch.

\* Mutant: the switch has no case for Skewb, which takes the default.
generateCustomScrambleCallee_noSkewbCase(t) ==
    CASE t = cubeTypes.TWO       -> "generateCustom2x2Scramble"
      [] t = cubeTypes.PYRAMINX  -> "generatePyraminxScramble"
      [] t = cubeTypes.CLOCK     -> "generateClockScramble"
      [] OTHER                   -> "generateCustom3x3Scramble"

generateCustomScrambleCallee(t) ==
    CASE t = cubeTypes.TWO       -> "generateCustom2x2Scramble"
      [] t = cubeTypes.THREE     -> "generateCustom3x3Scramble"
      [] t = cubeTypes.THREE_BLD -> "generateCustom3x3Scramble"
      [] t = cubeTypes.THREE_OH  -> "generateCustom3x3Scramble"
      [] t = cubeTypes.PYRAMINX  -> "generatePyraminxScramble"
      [] t = cubeTypes.SKEWB     -> "generateSkewbScramble"
      [] t = cubeTypes.CLOCK     -> "generateClockScramble"
      [] OTHER                   -> "generateCustom3x3Scramble"

\* The value passed as moves to the generator the switch selects.
generateCustomScrambleMoves(t, arg) ==
    CASE generateCustomScrambleCallee(t) = "generateCustom2x2Scramble" -> movesOr(arg, 10)
      [] generateCustomScrambleCallee(t) = "generateCustom3x3Scramble" -> movesOr(arg, 20)
      [] OTHER -> 0

\* Largest move count a caller of the model requests.
MaxMoves == 15

\* Arguments a caller passes.  The 3x3 family and an unknown type come with
\* small move counts, "3x3" also with MaxMoves, "2x2" with the counts around
\* its clamps; the types whose generators ignore the arguments come with one
\* pair of them.
DifficultyInputs == { "easy", "medium", "hard" }

CustomInputs ==
    [ cubeType : { "3x3", "3x3 BLD", "3x3 OH", "unknown-type" },
      moves : { << 1 >>, << 2 >> }, difficulty : DifficultyInputs ]
    \cup [ cubeType : { "3x3" }, moves : { << MaxMoves >> }, difficulty : DifficultyInputs ]
    \cup [ cubeType : { "2x2" },
           moves : { << m >> : m \in { 1, 5, 8, 9, 10, 11, 12, MaxMoves } },
           difficulty : DifficultyInputs ]
    \cup [ cubeType : { "Pyraminx", "Skewb", "Clock" },
           moves : { << 2 >> }, difficulty : { "hard" } ]

\* A call of generateCustomScramble with arguments of the given set.
generateCustomScrambleOn(inputs) ==
    /\ pc \in { "idle", "done" }
    /\ \E input \in inputs :
          /\ cubeType' = input.cubeType
          /\ movesArg' = input.moves
          /\ difficultyArg' = input.difficulty
          /\ callee' = generateCustomScrambleCallee(input.cubeType)
          /\ moves' = generateCustomScrambleMoves(input.cubeType, input.moves)
          /\ difficulty' = difficultyOrMedium(input.difficulty)
    /\ pc' = "entry"
    /\ result' = << >>
    /\ i' = 0
    /\ moveCount' = 0
    /\ tipCount' = 0
    /\ scramble' = << >>
    /\ scrambleLen' = 0
    /\ lastMove' = ""
    /\ secondLastMove' = ""
    /\ lastCorner' = ""
    /\ secondLastCorner' = ""
    /\ usedTips' = {}
    /\ pins' = << >>
    /\ branch' = ""
    /\ faces' = << >>
    /\ modifiers' = << >>
    /\ lastFace' = ""
    /\ lastAxis' = ""
    /\ drawnFace' = ""
    /\ UNCHANGED << suspended, serverVars >>

generateCustomScramble == generateCustomScrambleOn(CustomInputs)

NextCustom ==
    \/ generateCustomScramble
    \/ generateCustom3x3Scramble_begin
    \/ generateCustom3x3Scramble_loop
    \/ generateCustom3x3Scramble_return
    \/ generateCustom2x2Scramble_begin
    \/ generateCustom2x2Scramble_loop
    \/ generateCustom2x2Scramble_return
    \/ generatePyraminxScramble_begin
    \/ generatePyraminxScramble_loop
    \/ generatePyraminxScramble_tipsBegin
    \/ generatePyraminxScramble_tip
    \/ generatePyraminxScramble_return
    \/ generateSkewbScramble_begin
    \/ generateSkewbScramble_loop
    \/ generateSkewbScramble_return
    \/ generateClockScramble_begin
    \/ generateClockScramble_first
    \/ generateClockScramble_y2
    \/ generateClockScramble_second
    \/ generateClockScramble_return

SpecCustom == Init /\ [][NextCustom]_vars

----------------------------------------------------------------------------
\* Calls of generateScramble on the two labels that delegate to the 3x3
\* generator.

DelegatingInputs == { "3x3 BLD", "3x3 OH" }

generateScramble_delegating == generateScrambleOn(DelegatingInputs)

NextDelegation ==
    \/ generateScramble_delegating
    \/ generate3x3BLDScramble
    \/ generate3x3OHScramble
    \/ generate3x3Scramble_begin
    \/ generate3x3Scramble_loop
    \/ generate3x3Scramble_return

SpecDelegation == Init /\ [][NextDelegation]_vars

----------------------------------------------------------------------------
\* Calls of generateCustomScramble on the types that have no custom generator,
\* with and without a move count and a difficulty.

FallbackInputs ==
    [ cubeType : { "Pyraminx", "Skewb", "Clock" },
      moves : { << 2 >> }, difficulty : { "hard" } ]
    \cup [ cubeType : { "Pyraminx", "Skewb", "Clock" },
           moves : { << >> }, difficulty : { undefined } ]
    \cup [ cubeType : { "Pyraminx", "Skewb", "Clock" },
           moves : { << MaxMoves >> }, difficulty : { "easy" } ]

generateCustomScramble_fallback == generateCustomScrambleOn(FallbackInputs)

NextFallback ==
    \/ generateCustomScramble_fallback
    \/ generatePyraminxScramble_begin
    \/ generatePyraminxScramble_loop
    \/ generatePyraminxScramble_tipsBegin
    \/ generatePyraminxScramble_tip
    \/ generatePyraminxScramble_return
    \/ generateSkewbScramble_begin
    \/ generateSkewbScramble_loop
    \/ generateSkewbScramble_return
    \/ generateClockScramble_begin
    \/ generateClockScramble_first
    \/ generateClockScramble_y2
    \/ generateClockScramble_second
    \/ generateClockScramble_return

SpecFallback == Init /\ [][NextFallback]_vars

----------------------------------------------------------------------------
\* Calls with a type string that is not one of the seven labels.

UnrecognizedTypeInputs == { "unknown-type", "skewb" }

UnrecognizedInputs ==
    [ cubeType : { "unknown-type" }, moves : { << 12 >> }, difficulty : { "hard" } ]
    \cup [ cubeType : { "skewb" }, moves : { << 2 >> }, difficulty : { "easy" } ]
    \cup [ cubeType : { "clock" }, moves : { << 2 >> }, difficulty : { "medium" } ]

generateScramble_unrecognized == generateScrambleOn(UnrecognizedTypeInputs)

generateCustomScramble_unrecognized == generateCustomScrambleOn(UnrecognizedInputs)

NextUnrecognized ==
    \/ generateScramble_unrecognized
    \/ generate3x3Scramble_begin
    \/ generate3x3Scramble_loop
    \/ generate3x3Scramble_return
    \/ generateCustomScramble_unrecognized
    \/ generateCustom3x3Scramble_begin
    \/ generateCustom3x3Scramble_loop
    \/ generateCustom3x3Scramble_return

SpecUnrecognized == Init /\ [][NextUnrecognized]_vars

----------------------------------------------------------------------------
\* Calls with arguments outside the ordinary: a move count that is omitted
\* (<< >>), zero or negative, a difficulty that is omitted (undefined) or not
\* one of the three names.

ArgumentTypeInputs == { "unknown-type", "2x2" }

OtherDifficultyInputs == { undefined, "extreme" }

ArgumentInputs ==
    [ cubeType : { "3x3", "3x3 BLD", "unknown-type" },
      moves : { << >> }, difficulty : { "easy" } ]
    \cup [ cubeType : { "3x3", "3x3 OH" }, moves : { << 0 >> }, difficulty : { "easy" } ]
    \cup [ cubeType : { "3x3" }, moves : { << >> }, difficulty : { undefined } ]
    \cup [ cubeType : { "2x2" }, moves : { << >>, << 0 >>, << -1 >> },
           difficulty : DifficultyInputs \cup OtherDifficultyInputs ]
    \cup [ cubeType : { "3x3", "unknown-type" }, moves : { << -1 >> },
           difficulty : DifficultyInputs ]
    \cup [ cubeType : { "3x3" }, moves : { << 2 >> },
           difficulty : DifficultyInputs \cup OtherDifficultyInputs ]
    \cup [ cubeType : { "2x2" }, moves : { << 2 >>, << 10 >>, << 12 >> },
           difficulty : { "medium" } \cup OtherDifficultyInputs ]

generateScramble_arguments == generateScrambleOn(ArgumentTypeInputs)

generateCustomScramble_arguments == generateCustomScrambleOn(ArgumentInputs)

NextArguments ==
    \/ generateScramble_arguments
    \/ generate3x3Scramble_begin
    \/ generate3x3Scramble_loop
    \/ generate3x3Scramble_return
    \/ generate2x2Scramble_begin
    \/ generate2x2Scramble_loop
    \/ generate2x2Scramble_return
    \/ generateCustomScramble_arguments
    \/ generateCustom3x3Scramble_begin
    \/ generateCustom3x3Scramble_loop
    \/ generateCustom3x3Scramble_return
    \/ generateCustom2x2Scramble_begin
    \/ generateCustom2x2Scramble_loop
    \/ generateCustom2x2Scramble_return

SpecArguments == Init /\ [][NextArguments]_vars

----------------------------------------------------------------------------
\* Two invocations of generateCustomScramble whose steps are taken in any
\* order: one runs on the variables, the other waits in suspended, and a
\* switch exchanges them.  Each has the parameters and locals of its own call
\* of generateCustom3x3Scramble; the tables opposites and sameAxis, which no
\* statement assigns to, are the same for both.

\* The variables of the running invocation.
Running ==
    [ pc |-> pc, callee |-> callee, cubeType |-> cubeType, i |-> i,
      moveCount |-> moveCount, tipCount |-> tipCount, scramble |-> scramble,
      scrambleLen |-> scrambleLen, lastMove |-> lastMove,
      secondLastMove |-> secondLastMove, lastCorner |-> lastCorner,
      secondLastCorner |-> secondLastCorner, usedTips |-> usedTips, pins |-> pins,
      branch |-> branch, result |-> result, movesArg |-> movesArg,
      difficultyArg |-> difficultyArg, moves |-> moves, difficulty |-> difficulty,
      faces |-> faces, modifiers |-> modifiers, lastFace |-> lastFace,
      lastAxis |-> lastAxis, drawnFace |-> drawnFace ]

\* The running invocation stops where it is and the other one goes on.
switchInvocation ==
    /\ suspended' = Running
    /\ pc' = suspended.pc
    /\ callee' = suspended.callee
    /\ cubeType' = suspended.cubeType
    /\ i' = suspended.i
    /\ moveCount' = suspended.moveCount
    /\ tipCount' = suspended.tipCount
    /\ scramble' = suspended.scramble
    /\ scrambleLen' = suspended.scrambleLen
    /\ lastMove' = suspended.lastMove
    /\ secondLastMove' = suspended.secondLastMove
    /\ lastCorner' = suspended.lastCorner
    /\ secondLastCorner' = suspended.secondLastCorner
    /\ usedTips' = suspended.usedTips
    /\ pins' = suspended.pins
    /\ branch' = suspended.branch
    /\ result' = suspended.result
    /\ movesArg' = suspended.movesArg
    /\ difficultyArg' = suspended.difficultyArg
    /\ moves' = suspended.moves
    /\ difficulty' = suspended.difficulty
    /\ faces' = suspended.faces
    /\ modifiers' = suspended.modifiers
    /\ lastFace' = suspended.lastFace
    /\ lastAxis' = suspended.lastAxis
    /\ drawnFace' = suspended.drawnFace
    /\ UNCHANGED serverVars

InterleavedInputs ==
    [ cubeType : { "3x3" }, moves : { << 2 >> }, difficulty : { "easy", "medium" } ]
    \cup [ cubeType : { "3x3" }, moves : { << 1 >> }, difficulty : { "hard" } ]

generateCustomScramble_interleaved == generateCustomScrambleOn(InterleavedInputs)

NextInterleaved ==
    \/ generateCustomScramble_interleaved
    \/ generateCustom3x3Scramble_begin
    \/ generateCustom3x3Scramble_loop
    \/ generateCustom3x3Scramble_return
    \/ switchInvocation

SpecInterleaved == Init /\ [][NextInterleaved]_vars

----------------------------------------------------------------------------
\* Calls of the custom generators under a fair random source: a loop that can
\* go on does, and a draw that the do-while accepts is not put off for ever.

TerminationInputs ==
    [ cubeType : { "3x3", "unknown-type" }, moves : { << 3 >> },
      difficulty : DifficultyInputs ]
    \cup [ cubeType : { "2x2" }, moves : { << 2 >> }, difficulty : DifficultyInputs ]

generateCustomScramble_fair == generateCustomScrambleOn(TerminationInputs)

\* A pass of a do-while that accepts the face it drew.
acceptedDraw3x3 == generateCustom3x3Scramble_loop /\ scrambleLen' = scrambleLen + 1

acceptedDraw2x2 == generateCustom2x2Scramble_loop /\ scrambleLen' = scrambleLen + 1

NextTermination ==
    \/ generateCustomScramble_fair
    \/ generateCustom3x3Scramble_begin
    \/ generateCustom3x3Scramble_loop
    \/ generateCustom3x3Scramble_return
    \/ generateCustom2x2Scramble_begin
    \/ generateCustom2x2Scramble_loop
    \/ generateCustom2x2Scramble_return

SpecTermination ==
    /\ Init
    /\ [][NextTermination]_vars
    /\ WF_vars(generateCustom3x3Scramble_begin)
    /\ WF_vars(generateCustom3x3Scramble_return)
    /\ WF_vars(generateCustom2x2Scramble_begin)
    /\ WF_vars(generateCustom2x2Scramble_return)
    /\ SF_vars(acceptedDraw3x3)
    /\ SF_vars(acceptedDraw2x2)

-----------------------------------------------------------------------------
\* Calls of all seven generators: the five standard ones through
\* generateScramble, the two custom ones through generateCustomScramble.

GeneratorInputs ==
    [ cubeType : { "3x3", "2x2" }, moves : { << 2 >> }, difficulty : DifficultyInputs ]

generateCustomScramble_generators == generateCustomScrambleOn(GeneratorInputs)

NextGenerators ==
    \/ generateScramble
    \/ generateCustomScramble_generators
    \/ generate3x3Scramble_begin
    \/ generate3x3Scramble_loop
    \/ generate3x3Scramble_return
    \/ generate2x2Scramble_begin
    \/ generate2x2Scramble_loop
    \/ generate2x2Scramble_return
    \/ generatePyraminxScramble_begin
    \/ generatePyraminxScramble_loop
    \/ generatePyraminxScramble_tipsBegin
    \/ generatePyraminxScramble_tip
    \/ generatePyraminxScramble_return
    \/ generateSkewbScramble_begin
    \/ generateSkewbScramble_loop
    \/ generateSkewbScramble_return
    \/ generateClockScramble_begin
    \/ generateClockScramble_first
    \/ generateClockScramble_y2
    \/ generateClockScramble_second
    \/ generateClockScramble_return
    \/ generateCustom3x3Scramble_begin
    \/ generateCustom3x3Scramble_loop
    \/ generateCustom3x3Scramble_return
    \/ generateCustom2x2Scramble_begin
    \/ generateCustom2x2Scramble_loop
    \/ generateCustom2x2Scramble_return

SpecGenerators == Init /\ [][NextGenerators]_vars

-----------------------------------------------------------------------------
\* ScrambleManager: the weekly rotation and the scramble of the day.  A date
\* is modelled by its date.getDay(), 0 for Sunday to 6 for Saturday.

daySchedule ==
    [ MONDAY |-> cubeTypes.SKEWB, TUESDAY |-> cubeTypes.THREE_BLD,
      WEDNESDAY |-> cubeTypes.TWO, THURSDAY |-> cubeTypes.THREE,
      FRIDAY |-> cubeTypes.PYRAMINX, SATURDAY |-> cubeTypes.THREE_OH,
      SUNDAY |-> cubeTypes.CLOCK ]

\* Mutant: the array of day keys starts with Monday.
days_mondayFirst ==
    << "MONDAY", "TUESDAY", "WEDNESDAY", "THURSDAY", "FRIDAY", "SATURDAY", "SUNDAY" >>

\* The day keys, indexed by date.getDay().
days ==
    << "SUNDAY", "MONDAY", "TUESDAY", "WEDNESDAY", "THURSDAY", "FRIDAY", "SATURDAY" >>

\* The day names of generateDailyScramble, indexed by date.getDay().
dayNames ==
    << "Sunday", "Monday", "Tuesday", "Wednesday", "Thursday", "Friday", "Saturday" >>

\* daySchedule[days[date.getDay()]]
getCubeTypeForDay(getDay) == daySchedule[days[getDay + 1]]

DateInputs == 0..6

\* generateDailyScramble(date) up to its call of generateScramble(cubeType).
generateDailyScramble_begin ==
    /\ pc \in { "idle", "returned" }
    /\ \E getDay \in DateInputs :
          /\ dateDay' = getDay
          /\ cubeType' = getCubeTypeForDay(getDay)
          /\ callee' = generateScrambleCallee(getCubeTypeForDay(getDay))
    /\ daily' = NoDaily
    /\ pc' = "entry"
    /\ result' = << >>
    /\ movesArg' = << >>
    /\ difficultyArg' = undefined
    /\ ResetLocals
    /\ UNCHANGED << suspended, schedulerVars >>

\* generateScramble has returned: the object { day, cubeType, scramble }.
generateDailyScramble_return ==
    /\ pc = "done"
    /\ dateDay \in DateInputs
    /\ daily' = [ day |-> dayNames[dateDay + 1], cubeType |-> cubeType,
                  scramble |-> result ]
    /\ pc' = "returned"
    /\ UNCHANGED << callee, cubeType, i, moveCount, tipCount, scramble, scrambleLen,
                    lastMove, secondLastMove, lastCorner, secondLastCorner,
                    usedTips, pins, branch, result, movesArg, difficultyArg, moves,
                    difficulty, faces, modifiers, lastFace, lastAxis, drawnFace,
                    suspended, dateDay, schedulerVars >>

NextDaily ==
    \/ generateDailyScramble_begin
    \/ generateDailyScramble_return
    \/ generate3x3BLDScramble
    \/ generate3x3OHScramble
    \/ generate3x3Scramble_begin
    \/ generate3x3Scramble_loop
    \/ generate3x3Scramble_return
    \/ generate2x2Scramble_begin
    \/ generate2x2Scramble_loop
    \/ generate2x2Scramble_return
    \/ generatePyraminxScramble_begin
    \/ generatePyraminxScramble_loop
    \/ generatePyraminxScramble_tipsBegin
    \/ generatePyraminxScramble_tip
    \/ generatePyraminxScramble_return
    \/ generateSkewbScramble_begin
    \/ generateSkewbScramble_loop
    \/ generateSkewbScramble_return
    \/ generateClockScramble_begin
    \/ generateClockScramble_first
    \/ generateClockScramble_y2
    \/ generateClockScramble_second
    \/ generateClockScramble_return

SpecDaily == Init /\ [][NextDaily]_vars

-----------------------------------------------------------------------------
\* Scheduler and storage.  A stored thread is the record of its id and its
\* isDeleted flag; an archive attempt is the promise made for one thread by
\* allThreads.map, "pending" until discordBot.archiveThread settles, then
\* "true" or "false", the value of the promise.  One invocation of each of
\* the two triggers is followed at a time.

MaxThreads == 2

MaxInitialize == 2

\* All variables but those of Scheduler and storage.
generatorVars ==
    << pc, callee, cubeType, i, moveCount, tipCount, scramble, scrambleLen,
       lastMove, secondLastMove, lastCorner, secondLastCorner, usedTips, pins,
       branch, result, movesArg, difficultyArg, moves, difficulty, faces,
       modifiers, lastFace, lastAxis, drawnFace, suspended, dateDay, daily >>

\* The configurations storage can hold: none, one enabled, one disabled and
\* one enabled.
ConfigInputs ==
    { << >>,
      << [ id |-> 1, enabled |-> TRUE ] >>,
      << [ id |-> 1, enabled |-> FALSE ], [ id |-> 2, enabled |-> TRUE ] >> }

\* storage.createBotConfig / updateBotConfig, from the dashboard or at startup.
saveBotConfigs ==
    /\ \E configs \in ConfigInputs :
          /\ configs # botConfigs
          /\ botConfigs' = configs
    /\ UNCHANGED << generatorVars, challengeThreads, post, cleanup, cronJobs,
                    activeJobs, jobCount >>

\* Mutant: the last stored thread is left out.
getAllChallengeThreads_butLast(threads) ==
    IF Len(threads) = 0 THEN threads ELSE SubSeq(threads, 1, Len(threads) - 1)

\* Array.from(this.challengeThreads.values())
getAllChallengeThreads(threads) == threads

\* this.challengeThreads.set(id, { ...thread, id, isDeleted: false })
createChallengeThread(threads) ==
    Append(threads, [ id |-> Len(threads) + 1, isDeleted |-> FALSE ])

\* Mutant: the wait ends with the first archive attempt that settles.
allSettled_any(attempts) ==
    \E k \in 1..Len(attempts) : attempts[k] # "pending"

\* Promise.allSettled(archivePromises) has resolved.
allSettled(attempts) ==
    \A k \in 1..Len(attempts) : attempts[k] # "pending"

\* Mutant: every settled attempt is counted.
successful_allSettled(attempts) ==
    Cardinality({ k \in 1..Len(attempts) : attempts[k] # "pending" })

\* results.filter(r => r.status === 'fulfilled' && r.value === true).length
successful(attempts) ==
    Cardinality({ k \in 1..Len(attempts) : attempts[k] = "true" })

\* An invocation that starts with the threads storage returned.
Started(origin, threads, first) ==
    [ pc |-> first, origin |-> origin, allThreads |-> threads,
      attempts |-> [ k \in 1..Len(threads) |-> "pending" ],
      configs |-> << >>, next |-> 0, success |-> FALSE, count |-> 0 ]

\* An invocation that has returned; its archive attempts are kept.
Returned(op, success, count) ==
    [ op EXCEPT !.pc = "returned", !.configs = << >>, !.next = 0,
                !.success = success, !.count = count ]

\* triggerDailyScramblePost up to Promise.allSettled: storage is read and an
\* archive attempt is started for every thread; or storage throws and the
\* outer catch returns false.
triggerDailyScramblePostFrom(origin) ==
    /\ post.pc \in { "idle", "returned" }
    /\ \/ LET allThreads == getAllChallengeThreads(challengeThreads)
          IN  post' = Started(origin, allThreads,
                              IF Len(allThreads) > 0 THEN "archiving" ELSE "configs")
       \/ post' = Returned(Started(origin, << >>, "returned"), FALSE, 0)
    /\ UNCHANGED << generatorVars, challengeThreads, botConfigs, cleanup, cronJobs,
                    activeJobs, jobCount >>

\* The dashboard route calls triggerDailyScramblePost.
triggerDailyScramblePost == triggerDailyScramblePostFrom("manual")

\* The callback of a cron job of scheduleScramblePosts fires.
cronJobFires ==
    /\ \E job \in activeJobs : triggerDailyScramblePostFrom("cron")

\* discordBot.archiveThread settles for one thread of triggerDailyScramblePost:
\* it resolved (the promise is true) or rejected (the catch makes it false).
archiveThread_settlesInPost ==
    /\ \E k \in 1..Len(post.attempts), value \in { "true", "false" } :
          /\ post.attempts[k] = "pending"
          /\ post' = [ post EXCEPT !.attempts[k] = value ]
    /\ UNCHANGED << generatorVars, challengeThreads, botConfigs, cleanup, cronJobs,
                    activeJobs, jobCount >>

\* Promise.allSettled and the delay are over: storage.getAllBotConfigs().
triggerDailyScramblePost_configs ==
    /\ \/ post.pc = "archiving" /\ allSettled(post.attempts)
       \/ post.pc = "configs"
    /\ IF Len(botConfigs) = 0
       THEN post' = Returned(post, FALSE, 0)
       ELSE post' = [ post EXCEPT !.pc = "creating", !.configs = botConfigs, !.next = 1 ]
    /\ UNCHANGED << generatorVars, challengeThreads, botConfigs, cleanup, cronJobs,
                    activeJobs, jobCount >>

\* One pass of the loop over configs: a disabled one is skipped; for an
\* enabled one createDailyScrambleThread stores the new thread, or creates it
\* and fails to store it (the error is logged), or throws.
triggerDailyScramblePost_create ==
    /\ post.pc = "creating"
    /\ post.next <= Len(post.configs)
    /\ IF ~ post.configs[post.next].enabled
       THEN /\ post' = [ post EXCEPT !.next = post.next + 1 ]
            /\ UNCHANGED challengeThreads
       ELSE \/ /\ Len(challengeThreads) < MaxThreads
               /\ challengeThreads' = createChallengeThread(challengeThreads)
               /\ post' = [ post EXCEPT !.next = post.next + 1 ]
            \/ /\ post' = [ post EXCEPT !.next = post.next + 1 ]
               /\ UNCHANGED challengeThreads
            \/ /\ post' = Returned(post, FALSE, 0)
               /\ UNCHANGED challengeThreads
    /\ UNCHANGED << generatorVars, botConfigs, cleanup, cronJobs, activeJobs, jobCount >>

\* The loop over configs has ended: return true.
triggerDailyScramblePost_return ==
    /\ post.pc = "creating"
    /\ ~ (post.next <= Len(post.configs))
    /\ post' = Returned(post, TRUE, 0)
    /\ UNCHANGED << generatorVars, challengeThreads, botConfigs, cleanup, cronJobs,
                    activeJobs, jobCount >>

\* triggerThreadCleanup up to Promise.allSettled: no thread, { true, 0 } is
\* returned; storage throws, { false, 0 }.
triggerThreadCleanup ==
    /\ cleanup.pc \in { "idle", "returned" }
    /\ \/ LET allThreads == getAllChallengeThreads(challengeThreads)
          IN  IF Len(allThreads) = 0
              THEN cleanup' = Returned(Started("manual", allThreads, "returned"), TRUE, 0)
              ELSE cleanup' = Started("manual", allThreads, "archiving")
       \/ cleanup' = Returned(Started("manual", << >>, "returned"), FALSE, 0)
    /\ UNCHANGED << generatorVars, challengeThreads, botConfigs, post, cronJobs,
                    activeJobs, jobCount >>

\* discordBot.archiveThread settles for one thread of triggerThreadCleanup.
archiveThread_settlesInCleanup ==
    /\ \E k \in 1..Len(cleanup.attempts), value \in { "true", "false" } :
          /\ cleanup.attempts[k] = "pending"
          /\ cleanup' = [ cleanup EXCEPT !.attempts[k] = value ]
    /\ UNCHANGED << generatorVars, challengeThreads, botConfigs, post, cronJobs,
                    activeJobs, jobCount >>

\* Promise.allSettled and the delay are over: { success: true, count: successful }.
triggerThreadCleanup_return ==
    /\ cleanup.pc = "archiving"
    /\ allSettled(cleanup.attempts)
    /\ cleanup' = Returned(cleanup, TRUE, successful(cleanup.attempts))
    /\ UNCHANGED << generatorVars, challengeThreads, botConfigs, post, cronJobs,
                    activeJobs, jobCount >>

\* Map.prototype.set: the pair of the name is added or replaced.
MapSet(map, name, value) ==
    { pair \in map : pair[1] # name } \cup { << name, value >> }

\* initialize, which calls scheduleScramblePosts only: cron.schedule makes a
\* job that is active from then on, and cronJobs.set('dailyPost', job).
initialize ==
    /\ jobCount < MaxInitialize
    /\ jobCount' = jobCount + 1
    /\ activeJobs' = activeJobs \cup { jobCount + 1 }
    /\ cronJobs' = MapSet(cronJobs, "dailyPost", jobCount + 1)
    /\ UNCHANGED << generatorVars, challengeThreads, botConfigs, post, cleanup >>

\* this.cronJobs.size > 0
isRunning == Cardinality(cronJobs) > 0

\* job.stop() for every job of the Map, then cronJobs.clear().
stopAllJobs ==
    /\ activeJobs' = activeJobs \ { pair[2] : pair \in cronJobs }
    /\ cronJobs' = {}
    /\ UNCHANGED << generatorVars, challengeThreads, botConfigs, post, cleanup,
                    jobCount >>

NextScheduler ==
    \/ saveBotConfigs
    \/ initialize
    \/ stopAllJobs
    \/ triggerDailyScramblePost
    \/ cronJobFires
    \/ archiveThread_settlesInPost
    \/ triggerDailyScramblePost_configs
    \/ triggerDailyScramblePost_create
    \/ triggerDailyScramblePost_return
    \/ triggerThreadCleanup
    \/ archiveThread_settlesInCleanup
    \/ triggerThreadCleanup_return

SpecScheduler == Init /\ [][NextScheduler]_vars


----------------------------------------------------------------------------
\* Reading a returned string and the retained tail of the array.

\* String.prototype.split(sep) on a string of characters.
RECURSIVE Split(_, _)
Split(str, sep) ==
    IF \E k \in 1..Len(str) : str[k] = sep
    THEN LET k == CHOOSE k \in 1..Len(str) :
                     /\ str[k] = sep
                     /\ \A j \in 1..(k - 1) : str[j] # sep
         IN  << SubSeq(str, 1, k - 1) >> \o Split(SubSeq(str, k + 1, Len(str)), sep)
    ELSE << str >>

\* The tokens of a scramble string: the pieces between single spaces.
Tokens(str) == IF str = << >> THEN << >> ELSE Split(str, " ")

\* Position (from 1) in the whole scramble array of the k-th retained element.
Position(k) == scrambleLen - Len(scramble) + k

\* The face letter of a token.
Face(token) == token[1]

\* A token is a letter of the set followed by at most one of the modifiers.
IsMove(token, letters, mods) ==
    /\ Len(token) \in { 1, 2 }
    /\ token[1] \in letters
    /\ Len(token) = 2 => token[2] \in mods

Axis(face) == CASE face \in { "R", "L" } -> "RL"
                [] face \in { "U", "D" } -> "UD"
                [] face \in { "F", "B" } -> "FB"
                [] OTHER -> face

----------------------------------------------------------------------------
\* C1: a run of generateScramble("3x3") pushes only tokens made of one face
\* letter of R, L, U, D, F, B and at most one modifier of ' and 2, and the
\* string it returns has exactly 20 such tokens separated by single spaces.
C1_ThreeByThreeTwentyTokens ==
    cubeType = "3x3" =>
        /\ \A k \in 1..Len(scramble) :
              IsMove(scramble[k], { "R", "L", "U", "D", "F", "B" }, { "'", "2" })
        /\ scrambleLen <= 20
        /\ pc = "done" =>
              /\ scrambleLen = 20
              /\ Tokens(result) = scramble
              /\ Len(scramble) = IF Window < 20 THEN Window ELSE 20

C1_Witness ==
    /\ cubeType = "3x3"
    /\ pc = "done"
    /\ scrambleLen = 20
    /\ \E k \in 1..Len(scramble) : Len(scramble[k]) = 2
    /\ \E k \in 1..Len(scramble) : Len(scramble[k]) = 1

\* C2: in a 3x3 scramble no token is on the same axis (R/L, U/D, F/B) as the
\* token right before it, whether it came from the ordinary selection or from
\* the adjacent-face preference at positions 5, 10 and 15.
C2_NoSameAxisNeighbours ==
    cubeType = "3x3" =>
        \A k \in 2..Len(scramble) :
            Axis(Face(scramble[k])) # Axis(Face(scramble[k - 1]))

C2_Witness ==
    /\ cubeType = "3x3"
    /\ branch = "preferred"
    /\ i = 16
    /\ Len(scramble) >= 2

\* C3: in a 3x3 scramble the face of a token differs from the face of the
\* token two positions before it.
C3_NoABA ==
    cubeType = "3x3" =>
        \A k \in 3..Len(scramble) : Face(scramble[k]) # Face(scramble[k - 2])

C3_Witness ==
    /\ cubeType = "3x3"
    /\ branch = "preferred"
    /\ i = 11
    /\ Len(scramble) >= 3
    /\ Face(scramble[Len(scramble)]) # Face(scramble[Len(scramble) - 2])

----------------------------------------------------------------------------
\* Clock tokens.

\* The 4 comma-separated values between the parentheses of a pin token.
PinValues(token) == Split(SubSeq(token, 2, Len(token) - 1), ",")

\* Number of values d in a pin token.
DownCount(token) ==
    Cardinality({ k \in 1..Len(PinValues(token)) : PinValues(token)[k] = << "d" >> })

\* (p,p,p,p) with each p one of u, d.
IsPinToken(token) ==
    /\ Len(token) >= 2
    /\ token[1] = "("
    /\ token[Len(token)] = ")"
    /\ Len(PinValues(token)) = 4
    /\ \A k \in 1..4 : PinValues(token)[k] \in { << "u" >>, << "d" >> }

\* The position name, a '+' sign and one digit from 0 to 6.
IsHourToken(token, name) ==
    \E hour \in { "0", "1", "2", "3", "4", "5", "6" } : token = name \o << "+", hour >>

PositionNames == << << "U", "L" >>, << "U", "R" >>, << "D", "R" >>, << "D", "L" >>,
                    << "A", "L", "L" >> >>

\* The shape the token at position n (from 1) of a Clock scramble must have.
IsClockTokenAt(token, n) ==
    CASE n = 1        -> IsPinToken(token)
      [] n \in 2..6   -> IsHourToken(token, PositionNames[n - 1])
      [] n = 7        -> token = << "y", "2" >>
      [] n \in 8..12  -> IsHourToken(token, PositionNames[n - 7])
      [] OTHER        -> FALSE

\* C4: the first token of every Clock scramble has at least 2 values d among
\* its 4 pin values, whatever the four pin draws were.
C4_AtLeastTwoPinsDown ==
    cubeType = "Clock" =>
        \A k \in 1..Len(scramble) : Position(k) = 1 => DownCount(scramble[k]) >= 2

\* C5: a Clock scramble is, in this order, one pin token, the hour tokens of
\* UL, UR, DR, DL, ALL, the literal y2, and the hour tokens of UL, UR, DR, DL,
\* ALL again, 12 tokens in all; an hour token is the position name, '+' and
\* an hour from 0 to 6.
C5_ClockShape ==
    cubeType = "Clock" =>
        /\ \A k \in 1..Len(scramble) : IsClockTokenAt(scramble[k], Position(k))
        /\ scrambleLen <= 12
        /\ pc = "done" =>
              /\ scrambleLen = 12
              /\ Tokens(result) = scramble

C5_Witness ==
    /\ cubeType = "Clock"
    /\ pc = "done"
    /\ scrambleLen = 12
    /\ scramble[Len(scramble)] = << "A", "L", "L", "+", "6" >>

\* C6 as stated: a Clock scramble has 12 tokens and the 6th token, counted
\* from 1 with the pin token first, is the literal y2.
C6_SixthTokenIsY2 ==
    cubeType = "Clock" =>
        /\ pc = "done" => scrambleLen = 12
        /\ \A k \in 1..Len(scramble) : Position(k) = 6 => scramble[k] = << "y", "2" >>

\* C6 amended: a Clock scramble has 12 tokens and the 7th token, counted from
\* 1 with the pin token first, is the literal y2.
C6_SeventhTokenIsY2 ==
    cubeType = "Clock" =>
        /\ pc = "done" => scrambleLen = 12
        /\ \A k \in 1..Len(scramble) : Position(k) = 7 => scramble[k] = << "y", "2" >>

C6_Witness ==
    /\ cubeType = "Clock"
    /\ pc = "second"
    /\ scrambleLen = 7
    /\ scramble[Len(scramble)] = << "y", "2" >>

----------------------------------------------------------------------------
\* C7: a 2x2 scramble has as many tokens as the count drawn before the loop,
\* between 9 and 11, and every token is one of R, U, F followed by at most
\* one modifier of ' and 2 (so L, D, B never appear).
C7_TwoByTwoLengthAndAlphabet ==
    cubeType = "2x2" =>
        /\ \A k \in 1..Len(scramble) : IsMove(scramble[k], { "R", "U", "F" }, { "'", "2" })
        /\ pc \in { "loop", "done" } =>
              /\ moveCount \in 9..11
              /\ scrambleLen = i
              /\ scrambleLen <= moveCount
        /\ pc = "done" =>
              /\ scrambleLen = moveCount
              /\ Tokens(result) = scramble

C7_Witness ==
    /\ cubeType = "2x2"
    /\ pc = "done"
    /\ scrambleLen = 11
    /\ \E k \in 1..Len(scramble) : Len(scramble[k]) = 2

\* C8: in a 2x2 scramble no token has the face letter of the token right
\* before it, whether it came from the ordinary selection or from the
\* hard-pattern preference at every 3rd position.
C8_TwoByTwoNoRepeatedFace ==
    cubeType = "2x2" =>
        \A k \in 2..Len(scramble) : Face(scramble[k]) # Face(scramble[k - 1])

C8_Witness ==
    /\ cubeType = "2x2"
    /\ branch = "preferred"
    /\ i = 4
    /\ Len(scramble) >= 2

----------------------------------------------------------------------------
\* Pyraminx tokens.

IsBaseToken(token) == IsMove(token, { "R", "L", "U", "B" }, { "'" })

IsTipToken(token) == IsMove(token, { "r", "l", "u", "b" }, { "'" })

\* C9: a Pyraminx scramble is n base tokens, n the move count drawn at the
\* start and between 8 and 10, followed by at most 2 tip tokens: the base loop
\* never pushes more tokens than the move count, every token up to position n
\* is a base token and every later one a tip token, and the total is between
\* 8 and 12.
C9_PyraminxBaseThenTips ==
    cubeType = "Pyraminx" =>
        /\ pc = "loop" =>
              /\ moveCount \in 8..10
              /\ scrambleLen = i
              /\ scrambleLen <= moveCount
        /\ pc \in { "tips", "done" } =>
              /\ moveCount \in 8..10
              /\ i \in 0..2
              /\ scrambleLen = moveCount + i
        /\ \A k \in 1..Len(scramble) :
              IF Position(k) <= moveCount
              THEN IsBaseToken(scramble[k])
              ELSE IsTipToken(scramble[k])
        /\ pc = "done" =>
              /\ scrambleLen \in 8..12
              /\ Tokens(result) = scramble

C9_Witness ==
    /\ cubeType = "Pyraminx"
    /\ pc = "done"
    /\ moveCount = 10
    /\ scrambleLen = 12
    /\ \E k \in 1..Len(scramble) : Position(k) = moveCount /\ IsBaseToken(scramble[k])
    /\ IsTipToken(scramble[Len(scramble)])

\* C10: among the tip tokens of a Pyraminx scramble no letter appears twice.
C10_PyraminxTipsDistinct ==
    cubeType = "Pyraminx" =>
        \A j \in 1..Len(scramble), k \in 1..Len(scramble) :
            (j < k /\ Position(j) > moveCount) => Face(scramble[j]) # Face(scramble[k])

C10_Witness ==
    /\ cubeType = "Pyraminx"
    /\ pc = "done"
    /\ Len(scramble) >= 2
    /\ Position(Len(scramble) - 1) > moveCount
    /\ Face(scramble[Len(scramble) - 1]) # Face(scramble[Len(scramble)])

\* C11: in a Pyraminx scramble no base token has the letter of the base token
\* right before it, whether the two came from single-move steps, from an
\* injected pattern, or one from each.
C11_PyraminxNoRepeatedLetter ==
    cubeType = "Pyraminx" =>
        \A k \in 2..Len(scramble) :
            Position(k) <= moveCount => Face(scramble[k]) # Face(scramble[k - 1])

C11_Witness ==
    /\ cubeType = "Pyraminx"
    /\ pc = "loop"
    /\ branch = "pattern"
    /\ i = 5
    /\ Len(scramble) >= 3

\* The letter on the same axis in the anti-rotation map R<->L, U<->B.
AntiRotationOf(letter) ==
    CASE letter = "R" -> "L" [] letter = "L" -> "R"
      [] letter = "U" -> "B" [] letter = "B" -> "U" [] OTHER -> ""

\* C12: the base tokens of a Pyraminx scramble contain no three consecutive
\* tokens with letters X, Y, X where Y is the anti-rotation of X (R<->L,
\* U<->B), whether the tokens came from single moves or from an injected
\* pattern.
C12_PyraminxNoReopenedCancellation ==
    cubeType = "Pyraminx" =>
        \A k \in 3..Len(scramble) :
            Position(k) <= moveCount =>
                ~ ( /\ Face(scramble[k]) = Face(scramble[k - 2])
                    /\ Face(scramble[k - 1]) = AntiRotationOf(Face(scramble[k])) )

----------------------------------------------------------------------------
\* C13: a Skewb scramble has exactly 9 tokens separated by single spaces, each
\* one corner letter of R, U, L, B optionally followed by a single '; the
\* modifier 2 never appears.
C13_SkewbNineTokens ==
    cubeType = "Skewb" =>
        /\ \A k \in 1..Len(scramble) : IsMove(scramble[k], { "R", "U", "L", "B" }, { "'" })
        /\ scrambleLen = i
        /\ scrambleLen <= 9
        /\ pc = "done" =>
              /\ scrambleLen = 9
              /\ Tokens(result) = scramble

C13_Witness ==
    /\ cubeType = "Skewb"
    /\ pc = "done"
    /\ scrambleLen = 9
    /\ \E k \in 1..Len(scramble) : Len(scramble[k]) = 2
    /\ \E k \in 1..Len(scramble) : Len(scramble[k]) = 1

\* C14: in a Skewb scramble no token has the corner letter of the token right
\* before it, on the adjacent-corner path and on the regular path.
C14_SkewbNoRepeatedCorner ==
    cubeType = "Skewb" =>
        \A k \in 2..Len(scramble) : Face(scramble[k]) # Face(scramble[k - 1])

C14_Witness ==
    /\ cubeType = "Skewb"
    /\ branch = "adjacent"
    /\ i >= 2
    /\ Len(scramble) >= 2
    /\ scramble[Len(scramble)] # scramble[Len(scramble) - 1]

----------------------------------------------------------------------------
\* Custom scrambles (checked under SpecCustom).

\* The last token pushed.
LastToken(array) == array[Len(array)]

\* A token is a letter of the set followed by one of the modifier strings.
IsLetterWithModifier(token, letters, mods) ==
    \E letter \in letters, mod \in mods : token = << letter >> \o mod

OuterFaces == { "R", "L", "U", "D", "F", "B" }

\* C15: generateCustomScramble on "3x3", "3x3 BLD" or "3x3 OH" with a positive
\* move count n returns exactly n tokens at every difficulty: the generator
\* receives n unchanged and pushes one token per iteration.
C15_Custom3x3ExactCount ==
    (cubeType \in { "3x3", "3x3 BLD", "3x3 OH" } /\ movesArg # << >> /\ movesArg[1] > 0) =>
        /\ moves = movesArg[1]
        /\ scrambleLen = i
        /\ scrambleLen <= movesArg[1]
        /\ pc = "done" =>
              /\ scrambleLen = movesArg[1]
              /\ Tokens(result) = scramble

C15_Witness ==
    /\ cubeType = "3x3"
    /\ movesArg = << MaxMoves >>
    /\ difficultyArg = "medium"
    /\ pc = "done"
    /\ scrambleLen = MaxMoves

\* C16: generateCustomScramble("2x2", n, d) with n >= 1 returns min(n,8)
\* tokens when d is easy, max(n,11) when d is hard and min(max(n,9),11) when d
\* is medium.
C16_Custom2x2AdjustedCount ==
    (cubeType = "2x2" /\ pc = "done" /\ movesArg # << >> /\ movesArg[1] >= 1) =>
        LET n == movesArg[1]
        IN  /\ difficultyArg = "easy" => scrambleLen = (IF n < 8 THEN n ELSE 8)
            /\ difficultyArg = "hard" => scrambleLen = (IF n > 11 THEN n ELSE 11)
            /\ difficultyArg = "medium" =>
                  scrambleLen = (IF n < 9 THEN 9 ELSE IF n > 11 THEN 11 ELSE n)

C16_Witness ==
    /\ cubeType = "2x2"
    /\ pc = "done"
    /\ movesArg = << 12 >>
    /\ difficultyArg = "medium"
    /\ scrambleLen = 11

\* C17 as stated: generateCustomScramble("2x2", 5, "easy") returns exactly 8
\* tokens.
C17_FiveEasyGivesEight ==
    (cubeType = "2x2" /\ movesArg = << 5 >> /\ difficultyArg = "easy" /\ pc = "done") =>
        scrambleLen = 8

\* C17 amended: generateCustomScramble("2x2", 5, "easy") returns exactly 5
\* tokens (easy caps the count at 8 and does not raise it).
C17_FiveEasyGivesFive ==
    (cubeType = "2x2" /\ movesArg = << 5 >> /\ difficultyArg = "easy" /\ pc = "done") =>
        /\ scrambleLen = 5
        /\ moves = 5

C17_Witness ==
    /\ cubeType = "2x2"
    /\ movesArg = << 5 >>
    /\ difficultyArg = "easy"
    /\ pc = "done"
    /\ Len(result) > 0

\* C18: in a custom 3x3 scramble the difficulty fixes the alphabet: easy tokens
\* are an outer face with no modifier or '; medium tokens may also have 2; only
\* hard tokens may have the letters M, E, S and the modifiers w, w', w2.
C18_Custom3x3Alphabet ==
    callee = "generateCustom3x3Scramble" =>
        \A k \in 1..Len(scramble) :
            CASE difficultyArg = "easy" ->
                    IsLetterWithModifier(scramble[k], OuterFaces, { << >>, << "'" >> })
              [] difficultyArg = "medium" ->
                    IsLetterWithModifier(scramble[k], OuterFaces,
                                         { << >>, << "'" >>, << "2" >> })
              [] difficultyArg = "hard" ->
                    IsLetterWithModifier(scramble[k], OuterFaces \cup { "M", "E", "S" },
                                         { << >>, << "'" >>, << "2" >>, << "w" >>,
                                           << "w", "'" >>, << "w", "2" >> })
              [] OTHER -> TRUE

C18_Witness ==
    /\ callee = "generateCustom3x3Scramble"
    /\ difficultyArg = "hard"
    /\ pc = "done"
    /\ scrambleLen = 2
    /\ LastToken(scramble) = << "M", "w", "2" >>

\* C19: in a custom 3x3 scramble, at every difficulty, each token pushed after
\* the first has neither the face of the token pushed right before it nor the
\* face opposite to it (R/L, U/D, F/B).
C19_Custom3x3NoSameAxisNeighbour ==
    [][ ( /\ callee = "generateCustom3x3Scramble"
          /\ scrambleLen >= 1
          /\ scrambleLen' = scrambleLen + 1 ) =>
            /\ Face(LastToken(scramble')) # Face(LastToken(scramble))
            /\ Axis(Face(LastToken(scramble'))) # Axis(Face(LastToken(scramble))) ]_vars

C19_Witness ==
    /\ callee = "generateCustom3x3Scramble"
    /\ difficultyArg = "easy"
    /\ pc = "loop"
    /\ branch = "accepted"
    /\ scrambleLen = 2
    /\ Face(LastToken(scramble)) = lastFace

\* C20: in a custom 2x2 scramble every token is one of R, U, F followed by no
\* modifier or ' when the difficulty is easy, and by no modifier, ' or 2 when
\* it is medium or hard.
C20_Custom2x2Alphabet ==
    callee = "generateCustom2x2Scramble" =>
        \A k \in 1..Len(scramble) :
            IF difficultyArg = "easy"
            THEN IsLetterWithModifier(scramble[k], { "R", "U", "F" }, { << >>, << "'" >> })
            ELSE IsLetterWithModifier(scramble[k], { "R", "U", "F" },
                                      { << >>, << "'" >>, << "2" >> })

C20_Witness ==
    /\ callee = "generateCustom2x2Scramble"
    /\ difficultyArg = "hard"
    /\ pc = "done"
    /\ LastToken(scramble) = << "F", "2" >>
\* C21: in a custom 2x2 scramble, at every difficulty, each token pushed after
\* the first has a face letter different from that of the token pushed right
\* before it.
C21_Custom2x2NoRepeatedFace ==
    [][ ( /\ callee = "generateCustom2x2Scramble"
          /\ scrambleLen >= 1
          /\ scrambleLen' = scrambleLen + 1 ) =>
            Face(LastToken(scramble')) # Face(LastToken(scramble)) ]_vars

C21_Witness ==
    /\ callee = "generateCustom2x2Scramble"
    /\ pc = "loop"
    /\ branch = "accepted"
    /\ scrambleLen = 3
    /\ drawnFace = lastFace
    /\ Face(LastToken(scramble)) = lastFace

----------------------------------------------------------------------------
\* Delegation and argument handling (checked under SpecDelegation,
\* SpecFallback and SpecArguments).

\* C22: a call of generateScramble on "3x3 BLD" or "3x3 OH" runs the 3x3
\* generator and nothing else: past the wrapper every step is a step of
\* generate3x3Scramble, the string returned is the one that generator joined,
\* and the 3x3 properties hold of it (20 tokens of the 3x3 alphabet, no
\* neighbours on one axis, no face equal to the face two places before).
C22_BLDAndOHDelegate ==
    cubeType \in { "3x3 BLD", "3x3 OH" } =>
        /\ callee \in { generateScrambleCallee(cubeType), "generate3x3Scramble" }
        /\ pc # "entry" => callee = generateScrambleCallee("3x3")
        /\ \A k \in 1..Len(scramble) :
              IsMove(scramble[k], { "R", "L", "U", "D", "F", "B" }, { "'", "2" })
        /\ \A k \in 2..Len(scramble) :
              Axis(Face(scramble[k])) # Axis(Face(scramble[k - 1]))
        /\ \A k \in 3..Len(scramble) : Face(scramble[k]) # Face(scramble[k - 2])
        /\ scrambleLen <= 20
        /\ pc = "done" =>
              /\ scrambleLen = 20
              /\ result = join(scramble, << " " >>)
              /\ Tokens(result) = scramble

C22_Witness ==
    /\ cubeType = "3x3 BLD"
    /\ callee = "generate3x3Scramble"
    /\ pc = "done"
    /\ scrambleLen = 20
    /\ Len(Tokens(result)) = Window

Labels == { cubeTypes[k] : k \in DOMAIN cubeTypes }

HardModifiers ==
    { << >>, << "'" >>, << "2" >>, << "w" >>, << "w", "'" >>, << "w", "2" >> }

\* C24: a type string that is not exactly one of the seven labels ("skewb" and
\* "clock" in lower case included) raises nothing.  generateScramble runs the
\* 3x3 generator on it and returns 20 tokens with the 3x3 properties;
\* generateCustomScramble runs the custom 3x3 generator on it, and for
\* ("unknown-type", 12, "hard") returns 12 tokens of the hard alphabet.
C24_UnrecognizedTypeIs3x3 ==
    (pc # "idle" /\ cubeType \notin Labels) =>
        /\ pc # "threw"
        /\ callee \in { "generate3x3Scramble", "generateCustom3x3Scramble" }
        /\ callee = "generate3x3Scramble" =>
              /\ movesArg = << >>
              /\ \A k \in 1..Len(scramble) :
                    IsMove(scramble[k], { "R", "L", "U", "D", "F", "B" }, { "'", "2" })
              /\ \A k \in 2..Len(scramble) :
                    Axis(Face(scramble[k])) # Axis(Face(scramble[k - 1]))
              /\ \A k \in 3..Len(scramble) : Face(scramble[k]) # Face(scramble[k - 2])
              /\ scrambleLen <= 20
              /\ pc = "done" => (scrambleLen = 20 /\ Tokens(result) = scramble)
        /\ callee = "generateCustom3x3Scramble" =>
              /\ moves = movesArg[1]
              /\ scrambleLen <= movesArg[1]
              /\ pc = "done" => (scrambleLen = movesArg[1] /\ Tokens(result) = scramble)
              /\ (cubeType = "unknown-type" /\ pc = "done") => scrambleLen = 12
              /\ difficultyArg = "hard" =>
                    \A k \in 1..Len(scramble) :
                        IsLetterWithModifier(scramble[k], OuterFaces \cup { "M", "E", "S" },
                                             HardModifiers)
              /\ difficultyArg = "easy" =>
                    \A k \in 1..Len(scramble) :
                        IsLetterWithModifier(scramble[k], OuterFaces, { << >>, << "'" >> })

C24_Witness ==
    /\ cubeType = "skewb"
    /\ callee = "generate3x3Scramble"
    /\ pc = "done"
    /\ scrambleLen = 20
    /\ Len(Tokens(result)) = Len(scramble)

\* C25: with the move count omitted or 0, generateCustomScramble passes 20 to
\* the custom 3x3 generator (3x3 family and unrecognized types), which
\* returns 20 tokens, and 10 to the custom 2x2 generator, which clamps it by
\* the difficulty: 8 tokens for easy, 11 for hard, 10 otherwise.
C25_DefaultMoveCount ==
    (pc # "idle" /\ movesArg \in { << >>, << 0 >> }) =>
        /\ callee = "generateCustom3x3Scramble" =>
              /\ moves = 20
              /\ pc = "done" => scrambleLen = 20
        /\ callee = "generateCustom2x2Scramble" =>
              /\ pc = "entry" => moves = 10
              /\ pc = "done" =>
                    scrambleLen = CASE difficultyArg = "easy" -> 8
                                    [] difficultyArg = "hard" -> 11
                                    [] OTHER -> 10

C25_Witness ==
    /\ cubeType = "3x3 OH"
    /\ movesArg = << 0 >>
    /\ callee = "generateCustom3x3Scramble"
    /\ pc = "done"
    /\ scrambleLen = 20

\* C26: in the custom 3x3 and custom 2x2 generators a difficulty that is
\* omitted or is any string other than "easy" and "hard" acts as "medium":
\* the modifiers are none, ' and 2, the faces are the outer faces (R, U, F for
\* 2x2) with no slice or wide move, and the 2x2 move count is clamped to 9..11.
C26_OtherDifficultyIsMedium ==
    (pc \in { "loop", "done" } /\ difficultyArg \notin { "easy", "hard" }) =>
        /\ callee = "generateCustom3x3Scramble" =>
              /\ modifiers = modifiers3x3("medium")
              /\ faces = faces3x3("medium")
              /\ \A k \in 1..Len(scramble) :
                    IsLetterWithModifier(scramble[k], OuterFaces,
                                         { << >>, << "'" >>, << "2" >> })
        /\ callee = "generateCustom2x2Scramble" =>
              /\ modifiers = modifiers2x2("medium")
              /\ moves = adjustMoves2x2(movesOr(movesArg, 10), "medium")
              /\ moves \in 9..11
              /\ \A k \in 1..Len(scramble) :
                    IsLetterWithModifier(scramble[k], { "R", "U", "F" },
                                         { << >>, << "'" >>, << "2" >> })
              /\ pc = "done" => scrambleLen = moves

C26_Witness ==
    /\ callee = "generateCustom2x2Scramble"
    /\ difficultyArg = "extreme"
    /\ movesArg = << 12 >>
    /\ pc = "done"
    /\ scrambleLen = 11
    /\ LastToken(scramble) = << "F", "2" >>

\* A value is a string: a sequence of characters.
IsString(v) == \A k \in DOMAIN v : v[k] \in STRING /\ k \in 1..Len(v)

\* C27: no call of generateScramble or generateCustomScramble raises an error,
\* whatever the type string, the move count (omitted, zero, negative or
\* positive) and the difficulty; a call that returns returns a string, which
\* is empty when the custom 3x3 generator gets a negative count.
C27_NoErrorOutcome ==
    /\ pc # "threw"
    /\ pc = "done" =>
          /\ IsString(result)
          /\ (callee = "generateCustom3x3Scramble" /\ movesArg = << -1 >>) =>
                result = << >>
          /\ (callee = "generateCustom3x3Scramble" /\ movesArg # << -1 >>) =>
                Len(result) > 0
          /\ callee # "generateCustom3x3Scramble" =>
                (Len(result) > 0 <=> scrambleLen > 0)

C27_Witness ==
    /\ callee = "generateCustom3x3Scramble"
    /\ cubeType = "unknown-type"
    /\ movesArg = << -1 >>
    /\ difficultyArg = "hard"
    /\ pc = "done"
    /\ result = << >>

----------------------------------------------------------------------------
\* Interleaved invocations (checked under SpecInterleaved).

\* What an invocation of the custom 3x3 generator has made of its own
\* arguments: the faces of its difficulty, tokens of those faces, the count
\* it was asked for.
InvocationFromOwnArguments(r) ==
    (r.callee = "generateCustom3x3Scramble" /\ r.pc \in { "loop", "done" }) =>
        /\ r.faces = IF r.difficultyArg = "hard"
                     THEN << "R", "L", "U", "D", "F", "B", "M", "E", "S" >>
                     ELSE << "R", "L", "U", "D", "F", "B" >>
        /\ \A k \in 1..Len(r.scramble) :
              /\ includes(r.faces, Face(r.scramble[k]))
              /\ r.difficultyArg # "hard" => Face(r.scramble[k]) \notin { "M", "E", "S" }
        /\ r.moves = r.movesArg[1]
        /\ r.scrambleLen = r.i
        /\ r.scrambleLen <= r.moves
        /\ r.pc = "done" =>
              /\ r.scrambleLen = r.movesArg[1]
              /\ Tokens(r.result) = r.scramble

\* C28: two invocations whose steps are interleaved in any order, each after
\* any number of earlier calls, do not affect each other.  Each one's faces,
\* tokens and token count follow from its own arguments (an easy or medium
\* invocation never has M, E or S, whatever a hard one has pushed), and a step
\* changes the waiting invocation only by exchanging it with the running one.
C28_InvocationsIndependent ==
    /\ [](InvocationFromOwnArguments(Running) /\ InvocationFromOwnArguments(suspended))
    /\ [][ suspended' # suspended => (suspended' = Running /\ Running' = suspended) ]_vars

C28_Witness ==
    /\ callee = "generateCustom3x3Scramble"
    /\ difficultyArg = "easy"
    /\ pc = "done"
    /\ scrambleLen = 2
    /\ suspended.callee = "generateCustom3x3Scramble"
    /\ suspended.difficultyArg = "hard"
    /\ suspended.pc = "loop"
    /\ includes(suspended.faces, "M")

----------------------------------------------------------------------------
\* Termination (checked under SpecTermination).

\* Some letter of faces passes the do-while of the running custom generator.
SomeFaceAccepted ==
    /\ (callee = "generateCustom3x3Scramble" /\ pc = "loop") =>
          \E f \in Range(faces) :
              /\ ~ rejected3x3(f, lastFace, lastAxis)
              /\ ~ throwsCustom3x3(f, lastFace, lastAxis)
    /\ (callee = "generateCustom2x2Scramble" /\ pc = "loop") =>
          \E f \in Range(faces) : ~ rejected2x2(f, lastFace)

\* C29: whenever a do-while of the custom 3x3 or custom 2x2 generator draws,
\* at least one letter of its alphabet is acceptable, for every last face and
\* last axis and at every difficulty; so with a random source that does not
\* put an acceptable draw off for ever, a call of generateCustomScramble that
\* has started returns.
C29_CustomCallsReturn ==
    /\ []SomeFaceAccepted
    /\ (pc = "entry") ~> (pc = "done")

C29_Witness ==
    /\ callee = "generateCustom3x3Scramble"
    /\ difficultyArg = "hard"
    /\ pc = "loop"
    /\ branch = "rejected"
    /\ lastFace = "M"
    /\ lastAxis = "R"
    /\ drawnFace = "L"
    /\ scrambleLen = 2

\* getRandomElement(array) is a call with a non-empty array.
NonEmptyDraw(array) == Len(array) > 0 /\ undefined \notin getRandomElement(array)

\* The arrays that the next pass of the running generator can hand to
\* getRandomElement, each under the conditions of the source that lead to
\* the call other than the test of its length.
DrawSites3x3 ==
    (callee = "generate3x3Scramble" /\ pc = "loop" /\ continue3x3(i)
            /\ ~ throws3x3(lastMove)) =>
        LET HasLast(pair) == includes(pair, lastMove)
        IN  /\ NonEmptyDraw(availableMoves3x3(lastMove, secondLastMove))
            /\ (i > 0 /\ i % 5 = 0 /\ lastMove # "") =>
                   NonEmptyDraw(SelectSeq(adjacentPairs, HasLast))

DrawSites2x2 ==
    (callee = "generate2x2Scramble" /\ pc = "loop" /\ i < moveCount) =>
        LET HasLast(pattern) == includes(pattern, lastMove)
        IN  /\ NonEmptyDraw(availableMoves2x2(lastMove, secondLastMove))
            /\ (i > 0 /\ i % 3 = 0 /\ lastMove # "") =>
                   NonEmptyDraw(SelectSeq(hardPatterns2x2, HasLast))

DrawSitesPyraminx ==
    /\ (callee = "generatePyraminxScramble" /\ pc = "loop" /\ i < moveCount) =>
          /\ NonEmptyDraw(availableMovesPyraminx(lastMove, secondLastMove))
          /\ NonEmptyDraw(hardPatternsPyraminx)
          /\ NonEmptyDraw(modifiersPyraminx)
    /\ (callee = "generatePyraminxScramble" /\ pc = "tips" /\ i < tipCount) =>
          /\ NonEmptyDraw(availableTips(usedTips))
          /\ NonEmptyDraw(modifiersPyraminx)

DrawSitesSkewb ==
    (callee = "generateSkewbScramble" /\ pc = "loop" /\ continueSkewb(i)) =>
        /\ NonEmptyDraw(availableCornersSkewb(lastCorner))
        /\ (lastCorner # "" /\ adjacentCorners(lastCorner) # undefined) =>
               NonEmptyDraw(adjacentOptionsSkewb(lastCorner, secondLastCorner))

DrawSitesClock ==
    (callee = "generateClockScramble" /\ pc = "entry") =>
        /\ NonEmptyDraw(pinValues)
        /\ \A drawn \in [ Range(pinPositions) -> Range(pinValues) ] :
               downPinCount(drawn) < 2 => NonEmptyDraw(upPositions(drawn))

DrawSitesCustom ==
    /\ (callee = "generateCustom3x3Scramble" /\ pc = "loop"
            /\ continueCustom3x3(i, moves)) =>
          NonEmptyDraw(faces) /\ NonEmptyDraw(modifiers)
    /\ (callee = "generateCustom2x2Scramble" /\ pc = "loop" /\ i < moves) =>
          NonEmptyDraw(faces) /\ NonEmptyDraw(modifiers)

\* C30: in every state of every generator (3x3, 2x2, Pyraminx, Skewb, Clock,
\* custom 3x3, custom 2x2) each array its next pass can hand to
\* getRandomElement -- candidate moves, preferred pairs, hard patterns,
\* adjacent corners, available corners, available tips, up pins, faces and
\* modifiers -- has at least one element, so no draw is a draw from an
\* empty array.
C30_NoEmptyDraw ==
    /\ DrawSites3x3
    /\ DrawSites2x2
    /\ DrawSitesPyraminx
    /\ DrawSitesSkewb
    /\ DrawSitesClock
    /\ DrawSitesCustom

\* The tightest draw of the standard generators: a 2x2 pass whose candidate
\* list had one element left, the last move's axis and the move before it
\* being filtered out.
C30_Witness ==
    /\ callee = "generate2x2Scramble"
    /\ pc = "loop"
    /\ branch = "regular"
    /\ secondLastMove # ""
    /\ Len(availableMoves2x2(lastMove, secondLastMove)) = 1
    /\ i < moveCount

\* The faces of the retained tokens of positions n - 2 .. n are three letters.
ThreeFaces(array, n) ==
    Cardinality({ Face(array[n - 2]), Face(array[n - 1]), Face(array[n]) }) = 3

\* C31: in a standard 2x2 scramble two neighbouring tokens have different
\* faces and three consecutive tokens have three different faces; so a push
\* onto three or more tokens pushes the face of the token three places
\* before it, and the faces after the second are fixed by the first two.
C31_TwoByTwoFacesForced ==
    /\ [](cubeType = "2x2" =>
            /\ \A k \in 2..Len(scramble) : Face(scramble[k]) # Face(scramble[k - 1])
            /\ \A k \in 3..Len(scramble) : ThreeFaces(scramble, k))
    /\ [][(cubeType = "2x2" /\ scrambleLen >= 3 /\ scrambleLen' = scrambleLen + 1) =>
            Face(LastToken(scramble')) = Face(scramble[Len(scramble) - 2])]_vars

C31_Witness ==
    /\ cubeType = "2x2"
    /\ pc = "done"
    /\ scrambleLen = 11
    /\ Len(scramble) >= 3
    /\ Face(scramble[Len(scramble) - 2]) = "F"
    /\ Face(scramble[Len(scramble) - 1]) = "R"
    /\ Face(scramble[Len(scramble)]) = "U"

\* The positions at which two pin records differ.
ChangedPins(before, after) == { pos \in DOMAIN before : before[pos] # after[pos] }

SliceLetters == { "M", "E", "S" }

\* C33: in a hard custom 3x3 scramble lastFace is the letter of the last
\* token and lastAxis the letter of the last outer-face token, whatever
\* number of slice tokens came after it; a pushed outer-face token is never
\* on the axis of lastAxis (no R M L, no R M E R); and a slice letter is
\* rejected exactly when it is the letter of the last token.
C33_LastAxisSurvivesSlices ==
    /\ [](( /\ callee = "generateCustom3x3Scramble"
            /\ difficulty = "hard"
            /\ pc = "loop" ) =>
            /\ scrambleLen >= 1 => lastFace = Face(LastToken(scramble))
            /\ lastAxis \in OuterFaces \cup { "" }
            /\ lastFace \in OuterFaces => lastAxis = lastFace
            /\ \A f \in SliceLetters :
                   /\ ~ throwsCustom3x3(f, lastFace, lastAxis)
                   /\ rejected3x3(f, lastFace, lastAxis) <=> f = lastFace)
    /\ [][( /\ callee = "generateCustom3x3Scramble"
            /\ difficulty = "hard"
            /\ scrambleLen' = scrambleLen + 1 ) =>
            LET f == Face(LastToken(scramble'))
            IN  /\ f \in SliceLetters => lastAxis' = lastAxis
                /\ f \in OuterFaces =>
                       /\ lastAxis' = f
                       /\ lastAxis # "" => Axis(f) # Axis(lastAxis)]_vars

\* After R and M the draw of R is rejected: R M R does not appear.
C33_Witness ==
    /\ callee = "generateCustom3x3Scramble"
    /\ difficulty = "hard"
    /\ pc = "loop"
    /\ branch = "rejected"
    /\ scrambleLen = 2
    /\ lastAxis = "R"
    /\ lastFace = "M"
    /\ drawnFace = "R"

\* The rotation as the claim lists it, from Sunday to Saturday.
Rotation ==
    << "Clock", "Skewb", "3x3 BLD", "2x2", "3x3", "Pyraminx", "3x3 OH" >>

\* The number of tokens a scramble of the type can have.
ShapeLengths(type) ==
    CASE type = "Clock" -> { 12 }
      [] type = "Skewb" -> { 9 }
      [] type = "2x2" -> 9..11
      [] type = "Pyraminx" -> 8..12
      [] OTHER -> { 20 }

\* C34: getCubeTypeForDay maps Sunday to Saturday to Clock, Skewb, 3x3 BLD,
\* 2x2, 3x3, Pyraminx, 3x3 OH; in any 7 consecutive days every one of the
\* seven types comes exactly once (evaluated where a call is about to choose
\* or has just chosen its type); and a call of generateDailyScramble runs
\* the generator of the type of its day and returns that type, the name of
\* the day and a scramble of the type's shape.
C34_WeeklyRotation ==
    /\ pc \in { "idle", "entry" } =>
          /\ \A getDay \in 0..6 : getCubeTypeForDay(getDay) = Rotation[getDay + 1]
          /\ \A first \in 0..6 : \A type \in Labels :
                Cardinality({ k \in 0..6 :
                                getCubeTypeForDay((first + k) % 7) = type }) = 1
    /\ dateDay \in 0..6 =>
          /\ cubeType = Rotation[dateDay + 1]
          /\ callee \in { generateScrambleCallee(cubeType), "generate3x3Scramble" }
          /\ callee = "generate3x3Scramble" => cubeType \in { "3x3", "3x3 BLD", "3x3 OH" }
          /\ C1_ThreeByThreeTwentyTokens
          /\ C22_BLDAndOHDelegate
          /\ C7_TwoByTwoLengthAndAlphabet
          /\ C9_PyraminxBaseThenTips
          /\ C13_SkewbNineTokens
          /\ C5_ClockShape
          /\ pc \in { "done", "returned" } => scrambleLen \in ShapeLengths(cubeType)
          /\ pc = "returned" =>
                /\ daily.cubeType = Rotation[dateDay + 1]
                /\ daily.day = dayNames[dateDay + 1]
                /\ daily.scramble = result
                /\ Tokens(daily.scramble) = scramble

\* The object returned for a Tuesday.
C34_Witness ==
    /\ pc = "returned"
    /\ dateDay = 2
    /\ daily.day = "Tuesday"
    /\ daily.cubeType = "3x3 BLD"
    /\ scrambleLen = 20
    /\ Len(daily.scramble) > 0

\* No archive attempt of the invocation is pending.
NoPendingAttempt(op) ==
    \A k \in 1..Len(op.attempts) : op.attempts[k] \in { "true", "false" }

\* The archive attempts of the invocation whose promise is true.
TrueAttempts(op) == { k \in 1..Len(op.attempts) : op.attempts[k] = "true" }

\* C35: an invocation of triggerDailyScramblePost, manual or fired by a cron
\* job, has one archive attempt for every thread storage returned, and it is
\* past its archive phase (reading the configurations, creating threads, or
\* returned) only when none of these attempts is pending; so every call of
\* createDailyScrambleThread comes after the last attempt has settled.
C35_ArchiveSettledBeforeCreate ==
    /\ [](/\ Len(post.attempts) = Len(post.allThreads)
          /\ post.pc # "archiving" => NoPendingAttempt(post))
    /\ [][(post.pc = "creating" /\ post' # post) => NoPendingAttempt(post)]_vars

\* A cron-fired invocation that has called createDailyScrambleThread for its
\* first configuration, after one failed and one successful archive attempt.
C35_Witness ==
    /\ post.pc = "creating"
    /\ post.origin = "cron"
    /\ post.attempts = << "false", "true" >>
    /\ post.configs[1].enabled
    /\ post.next = 2

C37_ArchivingLeavesStorage ==
    /\ [](\A k \in 1..Len(challengeThreads) :
             challengeThreads[k] = [ id |-> k, isDeleted |-> FALSE ])
    /\ [][challengeThreads' # challengeThreads =>
            /\ post.pc = "creating"
            /\ cleanup' = cleanup
            /\ Len(challengeThreads') = Len(challengeThreads) + 1
            /\ SubSeq(challengeThreads', 1, Len(challengeThreads)) = challengeThreads]_vars
    /\ [][(post.pc \in { "idle", "returned" } /\ post'.pc \in { "archiving", "configs" }) =>
            /\ post'.allThreads = challengeThreads
            /\ Len(post'.attempts) = Len(challengeThreads)]_vars
    /\ [][(cleanup.pc \in { "idle", "returned" } /\ cleanup' # cleanup /\ cleanup'.success) =>
            cleanup'.allThreads = challengeThreads]_vars
    /\ [][(cleanup.pc \in { "idle", "returned" } /\ cleanup'.pc = "archiving") =>
            /\ cleanup'.allThreads = challengeThreads
            /\ Len(cleanup'.attempts) = Len(challengeThreads)]_vars

\* After a cleanup that archived both stored threads, a post again has an
\* attempt for both.
C37_Witness ==
    /\ cleanup.pc = "returned"
    /\ cleanup.attempts = << "true", "true" >>
    /\ cleanup.count = 2
    /\ post.pc = "archiving"
    /\ post.allThreads = challengeThreads
    /\ Len(post.attempts) = 2

\* C38: whenever cronJobs is empty, as it is when stopAllJobs has returned,
\* isRunning() is false and no cron job made by an earlier initialize is
\* active.
C38_StopStopsAllJobs ==
    ~ isRunning => activeJobs = {}

\* C39: while the scheduler runs, that is after initialize, cronJobs holds an
\* hourly cleanup job next to the daily post job.
C39_HourlyCleanupScheduled ==
    isRunning =>
        /\ \E pair \in cronJobs : pair[1] = "dailyPost"
        /\ \E pair \in cronJobs : pair[1] = "hourlyCleanup"

====
